---- MODULE Spec2Model ----
(***************************************************************************)
(* Model of the static blog generator (build script blog.ts, kept in the   *)
(* source tree as src/.prettierrc.js): slug derivation, front-matter       *)
(* normalisation, template composition, the per-document build loop and    *)
(* the index / archive aggregation.                                        *)
(*                                                                         *)
(* Text is a sequence of one-character strings.  A character outside       *)
(* ASCII is written by its code point ("U+8BBE").  Inside templates and    *)
(* pages a sequence element may also be a whole run of characters of one   *)
(* class (an identifier such as "content", a tag such as "<p>").           *)
(* Instants are counted in days since 1970-01-01 UTC instead of            *)
(* milliseconds (TLC integers are 32 bit); the time zone is UTC.           *)
(***************************************************************************)
EXTENDS Integers, Sequences, FiniteSets, TLC

VARIABLES
    slugIn,      \* sanitizeSlug: the argument s
    slugOut,     \* sanitizeSlug: the returned slug
    slugPc       \* "call" before the call, "ret" after it, "idle" when unused

slugVars == <<slugIn, slugOut, slugPc>>

VARIABLES
    tpl,         \* renderTemplate: the argument tpl
    tplCtx,      \* renderTemplate: the argument vars
    tplOut,      \* renderTemplate: the returned text, or TypeError
    tplPc        \* "call", "ret" or "idle"

tplVars == <<tpl, tplCtx, tplOut, tplPc>>

VARIABLES
    dir,         \* the source directory: file stem -> front matter, body, mtime
    fs,          \* the output directory: path -> content
    entries,     \* main: the ListEntry array
    archive,     \* buildArchiveGroups: the year groups of the rendered archive
    writes,      \* the post files written by this run, in order: [file, path]
    next,        \* main: index into files of the document the loop handles next
    pc,          \* main: "loop", "done" or "idle"
    run,         \* which build of the same directory this is: 1 or 2
    firstRun,    \* the output directory as the first build left it
    exitCode     \* the exit status of the build process, -1 while it runs

buildVars == <<dir, fs, entries, archive, writes, next, pc, run, firstRun, exitCode>>

VARIABLES
    metaIn,      \* normalizeMeta: the argument meta, the parsed front matter
    metaOut,     \* normalizeMeta: the returned record, or Thrown
    metaPc       \* "call", "ret" or "idle"

metaVars == <<metaIn, metaOut, metaPc>>

VARIABLES
    optFs,       \* the built site: path -> [content, readable]
    optFs0,      \* the built site as it was before the optimization
    optPass,     \* the running batch: "css", "js" or "html"
    optFiles,    \* the files the running batch found, in its order
    optNext,     \* index into optFiles of the file the batch handles next
    optCount,    \* pass -> the file count the batch returned (or has so far)
    optLog,      \* the files handled so far, in order: [pass, path]
    optPc        \* "loop", "done" or "idle"

optVars == <<optFs, optFs0, optPass, optFiles, optNext, optCount, optLog, optPc>>

VARIABLES
    tocDom,      \* the headings of the page in document order: [level, text, id]
    tocDom0,     \* the headings as the page was loaded
    tocIndex,    \* generateTOCHTML: the index forEach is at, into this.headings
    tocBaseId,   \* generateHeadingId: baseId
    tocId,       \* generateHeadingId: id
    tocCounter,  \* generateHeadingId: counter
    tocPc        \* "each", "probe", "done" or "idle"

tocVars == <<tocDom, tocDom0, tocIndex, tocBaseId, tocId, tocCounter, tocPc>>

VARIABLES
    sumEnv,      \* process.env: [apiKey, apiBase], each undefined or a string
    sumMaxLength,\* options.maxLength
    sumFs,       \* the selected Markdown files: file -> [readable, summary]
    sumFs0,      \* the selected files as they were when the run began
    sumNeeds,    \* generateSummaries: needsGeneration, the files in order
    sumSkipped,  \* generateSummaries: skipped
    sumI,        \* generateSummaries: the loop index i
    sumSuccess,  \* generateSummaries: successCount
    sumFail,     \* generateSummaries: failCount
    sumLog,      \* the attempts so far, in order: [file, summary or Thrown]
    sumExit,     \* the exit status of the process, -1 while it runs
    sumPc        \* "analyze", "loop", "done" or "idle"

sumVars == <<sumEnv, sumMaxLength, sumFs, sumFs0, sumNeeds, sumSkipped, sumI,
             sumSuccess, sumFail, sumLog, sumExit, sumPc>>

VARIABLES
    mobileMenu,  \* the MobileMenu instance and the page state it keeps: isOpen,
                 \* observers, the open classes of menu and body, the two aria
                 \* attributes, and the observer calls of the last operation
    menuEls,     \* which of .mobile-menu-toggle and .mobile-menu the page has
    innerWidth,  \* window.innerWidth
    menuCall     \* the last operation: its name, isOpen and observers before it

menuVars == <<mobileMenu, menuEls, innerWidth, menuCall>>

VARIABLES
    currentTheme,   \* ThemeManager: this.currentTheme
    dataTheme,      \* the data-theme attribute of the html element, Null if unset
    themeStorage,   \* localStorage: the value stored under blog-theme, or Null
    storageThrows,  \* whether the browser refuses access to localStorage
    systemDark,     \* whether (prefers-color-scheme: dark) matches
    themeButton,    \* whether the page has a theme toggle button
    themeMode,      \* who chose the theme last: "system" (nothing was stored when
                    \* the page loaded), "stored", "manual" or "reset"
    themeCall       \* the last operation: name, argument, result, the
                    \* currentTheme, data-theme, stored value and mode before
                    \* it, and the operation and currentTheme before that

themeVars == <<currentTheme, dataTheme, themeStorage, storageThrows, systemDark,
               themeButton, themeMode, themeCall>>

VARIABLES
    outDir,        \* the output directory: whether it exists, and its entries
    outDir0,       \* the output directory when the run began
    forcesPush,    \* deployConfig.forcesPush
    deployLog,     \* the commands executed so far, in order: [cmd, ok]
    statusOut,     \* what git status --porcelain printed: "", "changes", or
                   \* "none" while it has not run
    unpushedOut,   \* what git log origin/<branch>..HEAD printed, likewise, or
                   \* "fails" when it failed
    deployExit,    \* the exit status of the process, -1 while it runs
    deployPc       \* the step the run is at, "done", "failed" or "idle"

deployVars == <<outDir, outDir0, forcesPush, deployLog, statusOut, unpushedOut,
                deployExit, deployPc>>

VARIABLES
    optimizeConfig,  \* the enabled flags of the passes and general.generateReport
    report,          \* the OptimizationReport: [results, summary]
    passCalls,       \* the passes entered so far, in order: [pass, threw]
    reportFile,      \* what was written to reportPath, as a set: {} for nothing
    runPc            \* "css", "js", "html", "report", "return", "returned", "idle"

repVars == <<optimizeConfig, report, passCalls, reportFile, runPc>>

vars == <<slugVars, tplVars, buildVars, metaVars, optVars, tocVars, sumVars, menuVars, themeVars, deployVars, repVars>>

\* the variables outside one part
slugRest == <<tplVars, buildVars, metaVars, optVars, tocVars, sumVars, menuVars, themeVars, deployVars, repVars>>
tplRest == <<slugVars, buildVars, metaVars, optVars, tocVars, sumVars, menuVars, themeVars, deployVars, repVars>>
buildRest == <<slugVars, tplVars, metaVars, optVars, tocVars, sumVars, menuVars, themeVars, deployVars, repVars>>
metaRest == <<slugVars, tplVars, buildVars, optVars, tocVars, sumVars, menuVars, themeVars, deployVars, repVars>>
optRest == <<slugVars, tplVars, buildVars, metaVars, tocVars, sumVars, menuVars, themeVars, deployVars, repVars>>
tocRest == <<slugVars, tplVars, buildVars, metaVars, optVars, sumVars, menuVars, themeVars, deployVars, repVars>>
sumRest == <<slugVars, tplVars, buildVars, metaVars, optVars, tocVars, menuVars, themeVars, deployVars, repVars>>
menuRest == <<slugVars, tplVars, buildVars, metaVars, optVars, tocVars, sumVars, themeVars, deployVars, repVars>>
themeRest == <<slugVars, tplVars, buildVars, metaVars, optVars, tocVars, sumVars, menuVars, deployVars, repVars>>
deployRest == <<slugVars, tplVars, buildVars, metaVars, optVars, tocVars, sumVars, menuVars, themeVars, repVars>>
repRest == <<slugVars, tplVars, buildVars, metaVars, optVars, tocVars, sumVars, menuVars, themeVars, deployVars>>

\* the variables of a part that a specification does not exercise
SlugIdle == slugIn = <<>> /\ slugOut = <<>> /\ slugPc = "idle"
TplIdle == tpl = <<>> /\ tplCtx = <<>> /\ tplOut = <<>> /\ tplPc = "idle"
BuildIdle ==
    /\ dir = <<>> /\ fs = <<>> /\ entries = <<>> /\ archive = <<>> /\ writes = <<>>
    /\ next = 0 /\ pc = "idle" /\ run = 0 /\ firstRun = <<>> /\ exitCode = -1

MetaIdle == metaIn = <<>> /\ metaOut = <<>> /\ metaPc = "idle"

OptIdle ==
    /\ optFs = <<>> /\ optFs0 = <<>> /\ optPass = "" /\ optFiles = <<>> /\ optNext = 0
    /\ optCount = <<>> /\ optLog = <<>> /\ optPc = "idle"

TocIdle ==
    /\ tocDom = <<>> /\ tocDom0 = <<>> /\ tocIndex = 0 /\ tocBaseId = <<>> /\ tocId = <<>>
    /\ tocCounter = 0 /\ tocPc = "idle"

SumIdle ==
    /\ sumEnv = <<>> /\ sumMaxLength = 0 /\ sumFs = <<>> /\ sumFs0 = <<>>
    /\ sumNeeds = <<>> /\ sumSkipped = 0 /\ sumI = 0 /\ sumSuccess = 0
    /\ sumFail = 0 /\ sumLog = <<>> /\ sumExit = -1 /\ sumPc = "idle"

MenuIdle ==
    mobileMenu = <<>> /\ menuEls = <<>> /\ innerWidth = 0 /\ menuCall = <<>>

ThemeIdle ==
    /\ currentTheme = <<>> /\ dataTheme = <<>> /\ themeStorage = <<>>
    /\ storageThrows = FALSE /\ systemDark = FALSE /\ themeButton = FALSE
    /\ themeMode = "" /\ themeCall = <<>>

DeployIdle ==
    /\ outDir = <<>> /\ outDir0 = <<>> /\ forcesPush = FALSE /\ deployLog = <<>>
    /\ statusOut = "none" /\ unpushedOut = "none" /\ deployExit = -1
    /\ deployPc = "idle"

RepIdle ==
    /\ optimizeConfig = <<>> /\ report = <<>> /\ passCalls = <<>>
    /\ reportFile = {} /\ runPc = "idle"

SlugRestIdle == TplIdle /\ BuildIdle /\ MetaIdle /\ OptIdle /\ TocIdle /\ SumIdle /\ MenuIdle /\ ThemeIdle /\ DeployIdle /\ RepIdle
TplRestIdle == SlugIdle /\ BuildIdle /\ MetaIdle /\ OptIdle /\ TocIdle /\ SumIdle /\ MenuIdle /\ ThemeIdle /\ DeployIdle /\ RepIdle
BuildRestIdle == SlugIdle /\ TplIdle /\ MetaIdle /\ OptIdle /\ TocIdle /\ SumIdle /\ MenuIdle /\ ThemeIdle /\ DeployIdle /\ RepIdle
MetaRestIdle == SlugIdle /\ TplIdle /\ BuildIdle /\ OptIdle /\ TocIdle /\ SumIdle /\ MenuIdle /\ ThemeIdle /\ DeployIdle /\ RepIdle
OptRestIdle == SlugIdle /\ TplIdle /\ BuildIdle /\ MetaIdle /\ TocIdle /\ SumIdle /\ MenuIdle /\ ThemeIdle /\ DeployIdle /\ RepIdle
TocRestIdle == SlugIdle /\ TplIdle /\ BuildIdle /\ MetaIdle /\ OptIdle /\ SumIdle /\ MenuIdle /\ ThemeIdle /\ DeployIdle /\ RepIdle
SumRestIdle == SlugIdle /\ TplIdle /\ BuildIdle /\ MetaIdle /\ OptIdle /\ TocIdle /\ MenuIdle /\ ThemeIdle /\ DeployIdle /\ RepIdle
MenuRestIdle == SlugIdle /\ TplIdle /\ BuildIdle /\ MetaIdle /\ OptIdle /\ TocIdle /\ SumIdle /\ ThemeIdle /\ DeployIdle /\ RepIdle
ThemeRestIdle == SlugIdle /\ TplIdle /\ BuildIdle /\ MetaIdle /\ OptIdle /\ TocIdle /\ SumIdle /\ MenuIdle /\ DeployIdle /\ RepIdle
DeployRestIdle == SlugIdle /\ TplIdle /\ BuildIdle /\ MetaIdle /\ OptIdle /\ TocIdle /\ SumIdle /\ MenuIdle /\ ThemeIdle /\ RepIdle
RepRestIdle == SlugIdle /\ TplIdle /\ BuildIdle /\ MetaIdle /\ OptIdle /\ TocIdle /\ SumIdle /\ MenuIdle /\ ThemeIdle /\ DeployIdle

-----------------------------------------------------------------------------
(* Bounds                                                                  *)

MaxSlugLen == 4
MaxTplPieces == 3
MaxDocs == 3
MaxTagsLen == 4
MaxFiles == 3
MaxHeadings == 3
MaxSumFiles == 2
MaxReplyLen == 2
MaxObservers == 2

-----------------------------------------------------------------------------
(* Characters                                                              *)

AsciiUpper == {"A", "H", "I", "P", "T", "W"}
AsciiLower == {"a", "b", "d", "e", "h", "i", "l", "o", "p", "r", "s", "t", "w", "x"}
AsciiDigit == {"1", "2"}
\* U+8BBE and U+8BA1 are CJK ideographs (category Lo)
CJK == {"U+8BBE", "U+8BA1"}
\* U+00C9 / U+00E9: Latin E with acute, upper / lower case;  U+0130: capital I
\* with dot above;  U+05D0: Hebrew alef (Lo, no case);  U+1D400: mathematical
\* bold capital A (Lu, no lower-case mapping)
OtherUpper == {"U+00C9", "U+0130", "U+1D400"}
OtherLower == {"U+00E9"}
Uncased == {"U+05D0"}
\* U+00BD: vulgar fraction one half (category No)
OtherNumber == {"U+00BD"}
\* U+0307: combining dot above (category Mn)
Mark == {"U+0307"}
\* U+00A0: no-break space, in \s and removed by trim()
Whitespace == {" ", "U+00A0"}
PathSep == {"/", "\\"}
Punct == {"!", "?", "{", "}", "<", ">"}
Hyphen == "-"

\* \p{Letter} and \p{Number}
Letter == AsciiUpper \cup AsciiLower \cup CJK \cup OtherUpper \cup OtherLower \cup Uncased
Number == AsciiDigit \cup OtherNumber

\* the characters the second replace of sanitizeSlug keeps
SlugKept == Letter \cup Number \cup {Hyphen, "_", "."}

\* String.prototype.toLowerCase on one character; U+0130 lowers to two
ToLowerChar(c) ==
    CASE c = "A" -> <<"a">>
      [] c = "H" -> <<"h">>
      [] c = "I" -> <<"i">>
      [] c = "P" -> <<"p">>
      [] c = "T" -> <<"t">>
      [] c = "W" -> <<"w">>
      [] c = "U+00C9" -> <<"U+00E9">>
      [] c = "U+0130" -> <<"i", "U+0307">>
      [] OTHER -> <<c>>

RECURSIVE ToLowerCase(_)
ToLowerCase(s) ==
    IF s = <<>> THEN <<>> ELSE ToLowerChar(Head(s)) \o ToLowerCase(Tail(s))

\* String.prototype.trim
RECURSIVE TrimStart(_)
TrimStart(s) ==
    IF s # <<>> /\ Head(s) \in Whitespace THEN TrimStart(Tail(s)) ELSE s

RECURSIVE TrimEnd(_)
TrimEnd(s) ==
    IF s # <<>> /\ s[Len(s)] \in Whitespace
    THEN TrimEnd(SubSeq(s, 1, Len(s) - 1)) ELSE s

Trim(s) == TrimEnd(TrimStart(s))

\* s.replace(/[class]+/g, "-"): every maximal run of characters of the class
\* becomes one hyphen
ReplaceRuns(s, class) ==
    LET first(i) == s[i] \notin class \/ i = 1 \/ s[i - 1] \notin class
        idx == SelectSeq([i \in 1..Len(s) |-> i], first)
    IN  [j \in 1..Len(idx) |-> IF s[idx[j]] \in class THEN Hyphen ELSE s[idx[j]]]

\* every character of the model
AllChars ==
    Letter \cup Number \cup Mark \cup Whitespace \cup PathSep \cup Punct
    \cup {Hyphen, "_", "."}

\* .replace(/[\s/\\]+/g, "-")
HyphenateSeparators(s) == ReplaceRuns(s, Whitespace \cup PathSep)

\* .replace(/[^\p{Letter}\p{Number}\-_.]+/gu, "-")
HyphenateDisallowedDeletes(s) == SelectSeq(s, LAMBDA c : c \in SlugKept)
HyphenateDisallowed(s) == ReplaceRuns(s, AllChars \ SlugKept)

\* .replace(/-+/g, "-")
CollapseHyphensKeeps(s) == s
CollapseHyphens(s) == ReplaceRuns(s, {Hyphen})

\* .replace(/^-+|-+$/g, "")
RECURSIVE TrimHyphensStart(_)
TrimHyphensStart(s) ==
    IF s # <<>> /\ Head(s) = Hyphen THEN TrimHyphensStart(Tail(s)) ELSE s

RECURSIVE TrimHyphensEnd(_)
TrimHyphensEnd(s) ==
    IF s # <<>> /\ s[Len(s)] = Hyphen
    THEN TrimHyphensEnd(SubSeq(s, 1, Len(s) - 1)) ELSE s

TrimHyphens(s) == TrimHyphensEnd(TrimHyphensStart(s))

sanitizeSlug(s) ==
    LET normalized == Trim(s)
    IN  IF normalized = <<>>
        THEN <<>>
        ELSE TrimHyphens(CollapseHyphens(HyphenateDisallowed(
                 HyphenateSeparators(ToLowerCase(normalized)))))

-----------------------------------------------------------------------------
(* sanitizeSlug called on every short string over SlugAlphabet             *)

\* one or two characters of every class sanitizeSlug tells apart
SlugAlphabet ==
    {"A", "a", "1", "U+8BBE", "U+05D0", " ", "/", "!", Hyphen, "_", "."}

BoundedSeq(S, n) == UNION {[1..k -> S] : k \in 0..n}

InitSlug ==
    /\ SlugRestIdle
    /\ slugIn \in BoundedSeq(SlugAlphabet, MaxSlugLen)
           \cup {<<"U+0130", "a">>, <<"U+1D400">>, <<"U+00BD", "\\", "U+00C9">>}
    /\ slugOut = <<>>
    /\ slugPc = "call"

CallSanitizeSlug ==
    /\ slugPc = "call"
    /\ slugOut' = sanitizeSlug(slugIn)
    /\ slugPc' = "ret"
    /\ UNCHANGED <<slugIn, slugRest>>

NextSlug == CallSanitizeSlug

SpecSlug == InitSlug /\ [][NextSlug]_vars

\* C2 as stated: the slug holds only lower-case letters, digits, CJK characters,
\* hyphens, underscores and periods, has no hyphen at either end and no two
\* hyphens in a row.
NoEdgeOrDoubleHyphen(s) ==
    /\ s # <<>> => Head(s) # Hyphen /\ s[Len(s)] # Hyphen
    /\ \A i \in 1..(Len(s) - 1) : ~(s[i] = Hyphen /\ s[i + 1] = Hyphen)

C2_AsStated ==
    slugPc = "ret" =>
        /\ \A i \in 1..Len(slugOut) :
               slugOut[i] \in AsciiLower \cup OtherLower \cup AsciiDigit \cup CJK
                                 \cup {Hyphen, "_", "."}
        /\ NoEdgeOrDoubleHyphen(slugOut)

\* C2: the slug holds only letters and numbers of any script, every letter that
\* has a lower-case form being in that form, and hyphens, underscores and
\* periods; it has no hyphen at either end and no two hyphens in a row.
C2_SlugAlphabetAndHyphens ==
    slugPc = "ret" =>
        /\ \A i \in 1..Len(slugOut) :
               /\ slugOut[i] \in Letter \cup Number \cup {Hyphen, "_", "."}
               /\ ToLowerChar(slugOut[i]) = <<slugOut[i]>>
        /\ NoEdgeOrDoubleHyphen(slugOut)

C2_Witness ==
    /\ slugPc = "ret"
    /\ Len(slugIn) = 4
    /\ slugIn[1] = Hyphen
    /\ slugIn[2] \in AsciiUpper
    /\ slugIn[3] \in Whitespace \cup Punct
    /\ slugIn[4] = Hyphen
    /\ slugOut = <<"a">>

\* the maximal runs of kept characters other than the hyphen, in order
RECURSIVE SlugWords(_, _, _)
SlugWords(s, cur, acc) ==
    LET done == IF cur = <<>> THEN acc ELSE Append(acc, cur)
    IN  IF s = <<>> THEN done
        ELSE IF Head(s) \in SlugKept \ {Hyphen}
             THEN SlugWords(Tail(s), Append(cur, Head(s)), acc)
             ELSE SlugWords(Tail(s), <<>>, done)

RECURSIVE JoinHyphen(_)
JoinHyphen(ws) ==
    IF ws = <<>> THEN <<>>
    ELSE IF Len(ws) = 1 THEN ws[1]
    ELSE ws[1] \o <<Hyphen>> \o JoinHyphen(Tail(ws))

\* C3 as stated: disallowed punctuation is removed with nothing put in its
\* place, so deleting it from the input does not change the slug.
DisallowedPunct == AllChars \ (SlugKept \cup Whitespace \cup PathSep)

C3_AsStated ==
    slugPc = "ret" =>
        slugOut = sanitizeSlug(SelectSeq(slugIn, LAMBDA c : c \notin DisallowedPunct))

\* C3: every run of whitespace, path separators, disallowed characters and
\* hyphens becomes one hyphen between the runs of kept characters around it
\* (a!b gives a-b), and nothing at either end of the slug.
C3_RunsBecomeOneHyphen ==
    slugPc = "ret" =>
        slugOut = JoinHyphen(SlugWords(ToLowerCase(slugIn), <<>>, <<>>))

C3_Witness ==
    /\ slugPc = "ret"
    /\ Len(slugIn) = 4
    /\ slugIn[1] \in Letter
    /\ slugIn[2] \in Punct
    /\ slugIn[3] \in PathSep
    /\ slugIn[4] \in Letter
    /\ Len(slugOut) = 3
    /\ slugOut[2] = Hyphen

-----------------------------------------------------------------------------
(* renderTemplate                                                          *)

\* identifiers used as placeholder keys; each is a run of \w characters
Identifiers ==
    {"author", "bio", "name", "content", "siteTitle", "pageTitle", "title",
     "dateHtml", "metadata", "items", "groups"}

\* \w
WordChars == AsciiUpper \cup AsciiLower \cup AsciiDigit \cup {"_"} \cup Identifiers

\* JavaScript values
Undefined == [t |-> "undefined"]
Null == [t |-> "null"]
Str(s) == [t |-> "string", v |-> s]
Obj(f) == [t |-> "object", f |-> f]
Arr(v) == [t |-> "array", v |-> v]
Num(n) == [t |-> "number", n |-> n]
Bool(b) == [t |-> "boolean", b |-> b]
Thrown == [t |-> "throw"]

\* the text a throwing renderTemplate call is recorded as
TypeError == <<"TypeError">>

Truthy(o) ==
    CASE o.t \in {"object", "array"} -> TRUE
      [] o.t = "string" -> o.v # <<>>
      [] o.t = "number" -> o.n # 0
      [] o.t = "boolean" -> o.b
      [] OTHER -> FALSE

\* o[k]: a TypeError on undefined and null, undefined on a missing property
\* (the properties of a string, its length and indices, are no keys here)
GetProp(o, k) ==
    CASE o.t \in {"undefined", "null", "throw"} -> Thrown
      [] o.t = "object" -> IF k \in DOMAIN o.f THEN o.f[k] ELSE Undefined
      [] OTHER -> Undefined

\* the reducer (o, k) => (o ? o[k] : "")
ReduceStepUnguarded(o, k) == GetProp(o, k)
ReduceStep(o, k) == IF Truthy(o) THEN GetProp(o, k) ELSE Str(<<>>)

RECURSIVE Reduce(_, _)
Reduce(o, path) ==
    IF path = <<>> THEN o ELSE Reduce(ReduceStep(o, Head(path)), Tail(path))

\* key.split("."): the segments between the periods, each joined to a string
RECURSIVE SplitKey(_, _)
SplitKey(key, cur) ==
    IF key = <<>> THEN <<cur>>
    ELSE IF Head(key) = "." THEN <<cur>> \o SplitKey(Tail(key), "")
    ELSE SplitKey(Tail(key), cur \o Head(key))

\* String(val) of an object
ObjectText == <<"[object Object]">>

\* val == null ? "" : String(val)
ValueText(val) ==
    CASE val.t \in {"undefined", "null"} -> <<>>
      [] val.t = "string" -> val.v
      [] val.t = "throw" -> TypeError
      [] OTHER -> ObjectText

\* the first index from i on whose character is outside the class
SkipWhile(s, i, class) ==
    LET stop == {j \in i..Len(s) : s[j] \notin class}
    IN  IF stop = {} THEN Len(s) + 1 ELSE CHOOSE j \in stop : \A k \in stop : j <= k

\* the match of /{{\s*([\w.]+)\s*}}/ starting at index i, if there is one
MatchAt(s, i) ==
    LET j == SkipWhile(s, i + 2, Whitespace)
        k == SkipWhile(s, j, WordChars \cup {"."})
        m == SkipWhile(s, k, Whitespace)
    IN  IF /\ i + 1 <= Len(s) /\ s[i] = "{" /\ s[i + 1] = "{"
           /\ k > j
           /\ m + 1 <= Len(s) /\ s[m] = "}" /\ s[m + 1] = "}"
        THEN [ok |-> TRUE, last |-> m + 1, key |-> SubSeq(s, j, k - 1)]
        ELSE [ok |-> FALSE, last |-> i, key |-> <<>>]

\* the replace callback: the value of the dotted key in vars
Lookup(key, ctx) == Reduce(ctx, SplitKey(key, ""))

\* the matches of the global regular expression, left to right
RECURSIVE Matches(_, _)
Matches(s, i) ==
    IF i > Len(s) THEN <<>>
    ELSE LET m == MatchAt(s, i)
         IN  IF m.ok THEN <<[first |-> i, last |-> m.last, key |-> m.key]>>
                          \o Matches(s, m.last + 1)
             ELSE Matches(s, i + 1)

RECURSIVE ReplaceFrom(_, _, _)
ReplaceFrom(s, ctx, i) ==
    IF i > Len(s) THEN <<>>
    ELSE LET m == MatchAt(s, i)
         IN  IF m.ok
             THEN ValueText(Lookup(m.key, ctx)) \o ReplaceFrom(s, ctx, m.last + 1)
             ELSE <<s[i]>> \o ReplaceFrom(s, ctx, i + 1)

renderTemplateTwice(t, ctx) == ReplaceFrom(ReplaceFrom(t, ctx, 1), ctx, 1)
renderTemplate(t, ctx) ==
    LET out == ReplaceFrom(t, ctx, 1)
    IN  \* an exception thrown by the callback leaves replace, and renderTemplate
        IF \E n \in 1..Len(out) : out[n] = TypeError[1] THEN TypeError ELSE out

-----------------------------------------------------------------------------
(* renderTemplate called on short templates and small contexts             *)

Placeholder(key) == <<"{", "{">> \o key \o <<"}", "}">>

TplPieces ==
    {<<"x">>, <<"{">>, <<"}">>, <<"{", "{", "}", "}">>,
     Placeholder(<<"author">>),
     Placeholder(<<"author", ".", "bio">>),
     Placeholder(<<" ", "author", ".", "bio", " ">>),
     Placeholder(<<"author", ".", "name", ".", "bio">>),
     Placeholder(<<"author", ".", ".", "bio">>),
     Placeholder(<<"content">>),
     Placeholder(<<"siteTitle">>),
     Placeholder(<<"a", "-", "b">>)}

RECURSIVE Concat(_)
Concat(ss) == IF ss = <<>> THEN <<>> ELSE Head(ss) \o Concat(Tail(ss))

NoProps == [k \in {} |-> Undefined]

TplContexts ==
    {Obj(NoProps),
     Obj("author" :> Undefined),
     Obj("author" :> Null),
     Obj("author" :> Str(<<>>)),
     Obj("author" :> Str(<<"S", "e", "a", "l">>)),
     Obj("author" :> Obj("name" :> Str(<<"S">>))),
     Obj("author" :> Obj("bio" :> Str(<<"b", "i", "o">>))),
     Obj("author" :> Obj("bio" :> Null)),
     Obj(("content" :> Str(Placeholder(<<"siteTitle">>)))
              @@ ("siteTitle" :> Str(<<"S">>)))}

InitTpl ==
    /\ TplRestIdle
    /\ tpl \in {Concat(ps) : ps \in BoundedSeq(TplPieces, MaxTplPieces)}
    /\ tplCtx \in TplContexts
    /\ tplOut = <<>>
    /\ tplPc = "call"

CallRenderTemplate ==
    /\ tplPc = "call"
    /\ tplOut' = renderTemplate(tpl, tplCtx)
    /\ tplPc' = "ret"
    /\ UNCHANGED <<tpl, tplCtx, tplRest>>

NextTpl == CallRenderTemplate

SpecTpl == InitTpl /\ [][NextTpl]_vars

\* a dotted key resolves when every segment names a property of the object
\* reached so far and the value at the end is neither undefined nor null
RECURSIVE Walk(_, _)
Walk(o, path) ==
    IF path = <<>> THEN o
    ELSE IF o.t = "object" /\ Head(path) \in DOMAIN o.f
         THEN Walk(o.f[Head(path)], Tail(path))
         ELSE Undefined

Unresolved(key, ctx) == Walk(ctx, SplitKey(key, "")).t \in {"undefined", "null"}

\* the text of s outside the matches ms
Outside(s, ms) ==
    LET out(i) == \A n \in 1..Len(ms) : i < ms[n].first \/ i > ms[n].last
        idx == SelectSeq([i \in 1..Len(s) |-> i], out)
    IN  [j \in 1..Len(idx) |-> s[idx[j]]]

-----------------------------------------------------------------------------
(* Dates: new Date(string), getTime, getFullYear, getMonth, dayjs().format *)

\* the date strings of the model; every other string does not parse
CivilOf(s) ==
    CASE s = "1969-12-31" -> <<1969, 12, 31>>
      [] s = "1970-01-01" -> <<1970, 1, 1>>
      [] s = "2024-12-31" -> <<2024, 12, 31>>
      [] s = "2025-03-05" -> <<2025, 3, 5>>
      [] s = "2025-07-20" -> <<2025, 7, 20>>
      [] OTHER -> <<>>

\* days since 1970-01-01 of a civil date (proleptic Gregorian calendar)
DaysFromCivil(y0, m, d) ==
    LET y == IF m <= 2 THEN y0 - 1 ELSE y0
        era == y \div 400
        yoe == y - era * 400
        doy == (153 * (IF m > 2 THEN m - 3 ELSE m + 9) + 2) \div 5 + d - 1
        doe == yoe * 365 + yoe \div 4 - yoe \div 100 + doy
    IN  era * 146097 + doe - 719468

\* the civil date <<year, month, day>> of a day number
CivilFromDays(z0) ==
    LET z == z0 + 719468
        era == z \div 146097
        doe == z - era * 146097
        yoe == (doe - doe \div 1460 + doe \div 36524 - doe \div 146096) \div 365
        doy == doe - (365 * yoe + yoe \div 4 - yoe \div 100)
        mp == (5 * doy + 2) \div 153
        d == doy - (153 * mp + 2) \div 5 + 1
        m == IF mp < 10 THEN mp + 3 ELSE mp - 9
        y == yoe + era * 400
    IN  <<IF m <= 2 THEN y + 1 ELSE y, m, d>>

\* new Date(s): valid is FALSE where getTime() is NaN
ParseDate(s) ==
    LET c == CivilOf(s)
    IN  IF c = <<>> THEN [valid |-> FALSE, t |-> 0]
        ELSE [valid |-> TRUE, t |-> DaysFromCivil(c[1], c[2], c[3])]

getFullYear(t) == CivilFromDays(t)[1]
getMonth(t) == CivilFromDays(t)[2] - 1

\* String(n).padStart(2, "0")
PadStart2(n) == IF n < 10 THEN "0" \o ToString(n) ELSE ToString(n)

\* dayjs(s).format("YYYY-MM-DD")
FormatDate(s) == IF ParseDate(s).valid THEN s ELSE "Invalid Date"

-----------------------------------------------------------------------------
(* Configuration and templates                                             *)

FROM_DIR == "__blogs"
POSTS_DIR == "posts"
USERNAME == <<"S", "e", "a", "l">>
OUT_DIR == "sealye09.github.io"
SiteTitle == USERNAME \o <<"'s Blog">>

\* templates/post.html, base.html, index.html, archive.html, 404.html
postTpl ==
    <<"<article>">> \o Placeholder(<<"dateHtml">>) \o Placeholder(<<"content">>)
    \o <<"<script>">> \o Placeholder(<<"metadata">>) \o <<"</script>", "</article>">>

baseTpl ==
    <<"<title>">> \o Placeholder(<<"pageTitle">>) \o <<"</title>", "<nav>">>
    \o Placeholder(<<" ", "siteTitle", " ">>) \o <<"</nav>", "<main>">>
    \o Placeholder(<<"content">>) \o <<"</main>">>

indexTpl == <<"<section>">> \o Placeholder(<<"items">>) \o <<"</section>">>

archiveTpl == <<"<section>">> \o Placeholder(<<"groups">>) \o <<"</section>">>

error404Tpl == <<"<a href=">> \o Placeholder(<<"basePath">>) \o <<">", "404", "</a>">>

-----------------------------------------------------------------------------
(* Helpers of main                                                         *)

\* the characters of a string joined into one string
RECURSIVE StrOf(_)
StrOf(s) == IF s = <<>> THEN "" ELSE Head(s) \o StrOf(Tail(s))

\* Array.prototype.join
RECURSIVE JoinStr(_, _)
JoinStr(ss, sep) ==
    IF ss = <<>> THEN ""
    ELSE IF Len(ss) = 1 THEN ss[1]
    ELSE ss[1] \o sep \o JoinStr(Tail(ss), sep)

\* String(meta.tags).split(/[\,\s]+/).filter(Boolean)
RECURSIVE SplitTags(_, _, _)
SplitTags(s, cur, acc) ==
    LET done == IF cur = <<>> THEN acc ELSE Append(acc, cur)
    IN  IF s = <<>> THEN done
        ELSE IF Head(s) \in Whitespace \cup {","}
             THEN SplitTags(Tail(s), <<>>, done)
             ELSE SplitTags(Tail(s), Append(cur, Head(s)), acc)

\* a || b on strings
Or(a, b) == IF a # "" THEN a ELSE b

\* the decimal digits of a natural number
RECURSIVE Digits(_)
Digits(n) ==
    LET d == <<"0", "1", "2", "3", "4", "5", "6", "7", "8", "9">>[(n % 10) + 1]
    IN  IF n < 10 THEN <<d>> ELSE Append(Digits(n \div 10), d)

\* String(v) of a truthy front-matter value that is not an array
StringOf(v) ==
    CASE v.t = "string" -> v.v
      [] v.t = "number" -> Digits(v.n)
      [] v.t = "boolean" -> <<"t", "r", "u", "e">>
      [] v.t = "object" -> <<"[", "object", " ", "Object", "]">>

\* String(v) throws a TypeError: a YAML mapping is a plain object, and when
\* one of its own keys is toString the conversion finds no callable method
\* that returns a primitive (the value of the key is never a function, the
\* inherited valueOf returns the object itself)
StringThrows(v) == v.t = "object" /\ "toString" \in DOMAIN v.f

\* Array.isArray(meta.tags) ? meta.tags
\*   : meta.tags ? String(meta.tags).split(/[\,\s]+/).filter(Boolean) : []
TagsOf(tags) ==
    IF tags.t = "array" THEN tags.v
    ELSE IF Truthy(tags) THEN SplitTags(StringOf(tags), <<>>, <<>>)
    ELSE <<>>

normalizeMeta(meta, stem) ==
    IF meta.tags.t # "array" /\ Truthy(meta.tags) /\ StringThrows(meta.tags)
    THEN Thrown
    ELSE [title |-> IF meta.title # <<>> THEN meta.title ELSE stem,
          date |-> Or(meta.date, Or(meta.created, meta.modified)),
          dateCreated |-> Or(meta.created, meta.date),
          dateModified |-> meta.modified,
          tags |-> TagsOf(meta.tags),
          summary |-> IF meta.summary # <<>> THEN meta.summary ELSE meta.description]

\* readMdFiles: the file stems in the order of Array.prototype.sort
StemOrder == <<"!", "a", "b", "c">>

readMdFiles(d) ==
    SelectSeq(StemOrder, LAMBDA n : n \in DOMAIN d)

\* (data as any).slug || meta.title || basename(file, extname(file))
SlugSource(data, meta, stem) ==
    IF data.slug # <<>> THEN data.slug
    ELSE IF meta.title # <<>> THEN meta.title
    ELSE stem

PostLiteral == <<"p", "o", "s", "t">>

\* sanitizeSlug(basename(file, extname(file))) || "post"
FallbackSlugNoPost(stem) == sanitizeSlug(stem)
FallbackSlug(stem) ==
    IF sanitizeSlug(stem) # <<>> THEN sanitizeSlug(stem) ELSE PostLiteral

\* sanitizeSlug(slugSource) || fallbackSlug
BaseSlug(data, meta, stem) ==
    LET slug == sanitizeSlug(SlugSource(data, meta, stem))
    IN  IF slug # <<>> THEN slug ELSE FallbackSlug(stem)

\* dateValue, year and month of one document
DateInfoNoFallback(meta, mtime) ==
    LET p == ParseDate(meta.date)
    IN  IF meta.date # "" /\ p.valid
        THEN [dateValue |-> p.t,
              year |-> ToString(getFullYear(p.t)),
              month |-> PadStart2(getMonth(p.t) + 1)]
        ELSE [dateValue |-> 0, year |-> "", month |-> ""]
DateInfo(meta, mtime) ==
    LET p == ParseDate(meta.date)
        parsed == meta.date # "" /\ p.valid
        dateValue == IF parsed THEN p.t ELSE 0
    IN  IF dateValue # 0
        THEN [dateValue |-> dateValue,
              year |-> ToString(getFullYear(p.t)),
              month |-> PadStart2(getMonth(p.t) + 1)]
        ELSE [dateValue |-> mtime,
              year |-> ToString(getFullYear(mtime)),
              month |-> PadStart2(getMonth(mtime) + 1)]

\* [year, month, baseSlug].filter(Boolean)
SlugSegments(di, baseSlug) ==
    SelectSeq(<<di.year, di.month, StrOf(baseSlug)>>, LAMBDA x : x # "")

\* join(postDir, `${baseSlug}.html`), a path being the sequence of its segments
OutFile(segs, baseSlug) ==
    <<OUT_DIR, POSTS_DIR>> \o SubSeq(segs, 1, Len(segs) - 1)
    \o <<StrOf(baseSlug) \o ".html">>

RECURSIVE Repeat(_, _)
Repeat(x, n) == IF n = 0 THEN <<>> ELSE <<x>> \o Repeat(x, n - 1)

Max(a, b) == IF a >= b THEN a ELSE b

buildBasePath(directoryDepth) ==
    JoinStr(Repeat("..", Max(directoryDepth + 1, 1)), "/")

\* md.render(content)
MdRender(body) == <<"<p>">> \o body \o <<"</p>">>

RECURSIVE TagsHtml(_)
TagsHtml(tags) ==
    IF tags = <<>> THEN <<>>
    ELSE <<"<span class=post-tag>">> \o Head(tags) \o <<"</span>">> \o TagsHtml(Tail(tags))

\* the post-meta block of a post page
DateHtml(meta) ==
    IF meta.title # <<>> \/ meta.dateCreated # "" \/ meta.dateModified # ""
       \/ Len(meta.tags) > 0 \/ meta.summary # <<>>
    THEN <<"<div class=post-meta>">>
         \o (IF meta.title # <<>>
             THEN <<"<h1>">> \o meta.title \o <<"</h1>">> ELSE <<>>)
         \o (IF Len(meta.tags) > 0
             THEN <<"<div class=post-tags>">> \o TagsHtml(meta.tags) \o <<"</div>">>
             ELSE <<>>)
         \o (IF meta.summary # <<>>
             THEN <<"<span class=post-summary-text>">> \o meta.summary \o <<"</span>">>
             ELSE <<>>)
         \o (IF meta.dateCreated # ""
             THEN <<"<time created>", FormatDate(meta.dateCreated), "</time>">>
             ELSE <<>>)
         \o (IF meta.dateModified # ""
             THEN <<"<time modified>", FormatDate(meta.dateModified), "</time>">>
             ELSE <<>>)
         \o <<"</div>">>
    ELSE <<>>

\* JSON.stringify({ ...meta, slug: relativeSlugPath, year, month }, null, 2)
MetadataJson(meta, relativeSlugPath, di) ==
    <<"{", "\"title\":">> \o meta.title
    \o <<"\"date\":", meta.date, "\"slug\":", relativeSlugPath,
         "\"year\":", di.year, "\"month\":", di.month, "}">>

\* the context of the base template
BaseVars(pageTitle, basePath, content) ==
    Obj(("pageTitle" :> Str(pageTitle)) @@ ("siteAuthor" :> Str(USERNAME))
        @@ ("basePath" :> Str(<<basePath>>)) @@ ("content" :> Str(content))
        @@ ("siteTitle" :> Str(SiteTitle)))

\* everything one iteration of the loop of main computes for one document
PostOf(stem, data) ==
    LET meta == normalizeMeta(data, <<stem>>)
        baseSlug == BaseSlug(data, meta, <<stem>>)
        html == MdRender(data.body)
        di == DateInfo(meta, data.mtime)
        segs == SlugSegments(di, baseSlug)
        relativeSlugPath == JoinStr(segs, "/")
        basePath == buildBasePath(Max(Len(segs) - 1, 0))
        postHtml == renderTemplate(postTpl,
                        Obj(("title" :> Str(meta.title))
                            @@ ("dateHtml" :> Str(DateHtml(meta)))
                            @@ ("content" :> Str(html))
                            @@ ("metadata" :> Str(MetadataJson(meta, relativeSlugPath, di)))))
    IN  [outFile |-> OutFile(segs, baseSlug),
         fullHtml |-> renderTemplate(baseTpl, BaseVars(meta.title, basePath, postHtml)),
         entry |-> [slug |-> relativeSlugPath,
                    title |-> meta.title,
                    date |-> meta.date,
                    url |-> "./" \o POSTS_DIR \o "/" \o relativeSlugPath \o ".html",
                    summary |-> meta.summary,
                    dateValue |-> di.dateValue]]

\* fs.writeFile(path, content, "utf8")
WriteFileAppends(files, path, content) ==
    IF path \in DOMAIN files
    THEN [files EXCEPT ![path] = @ \o content]
    ELSE files @@ (path :> content)
WriteFile(files, path, content) ==
    [p \in DOMAIN files \cup {path} |-> IF p = path THEN content ELSE files[p]]

\* the comparator (a, b) => b.dateValue - a.dateValue
CompareAscending(a, b) == a.dateValue - b.dateValue
Compare(a, b) == b.dateValue - a.dateValue

\* Array.prototype.sort with the comparator (a stable insertion sort)
InsertSorted(sorted, e) ==
    LET before == {i \in 1..Len(sorted) : Compare(sorted[i], e) <= 0}
        \* e goes behind the last element that does not have to follow it
        n == IF before = {} THEN 0 ELSE CHOOSE i \in before : \A j \in before : j <= i
    IN  SubSeq(sorted, 1, n) \o <<e>> \o SubSeq(sorted, n + 1, Len(sorted))

RECURSIVE SortEntriesFrom(_, _)
SortEntriesFrom(sorted, es) ==
    IF es = <<>> THEN sorted
    ELSE SortEntriesFrom(InsertSorted(sorted, Head(es)), Tail(es))

SortEntries(es) == SortEntriesFrom(<<>>, es)

\* the post-item anchors of the index page
ItemOpen == "<a class=post-item href="

RECURSIVE ItemsHtml(_)
ItemsHtml(es) ==
    IF es = <<>> THEN <<>>
    ELSE LET e == Head(es)
         IN  <<ItemOpen, e.url, ">", "<h2>">> \o e.title \o <<"</h2>">>
             \o (IF e.date # "" THEN <<"<time>", FormatDate(e.date), "</time>">> ELSE <<>>)
             \o (IF e.summary # <<>> THEN <<"<p>">> \o e.summary \o <<"</p>">> ELSE <<>>)
             \o <<"</a>">> \o ItemsHtml(Tail(es))

\* buildArchiveGroups: an entry is grouped unless its date is empty or invalid
InArchiveAnyDate(e) == e.date # ""
InArchive(e) == e.date # "" /\ ParseDate(e.date).valid

\* d.getFullYear() of new Date(entry.date); 0 stands for NaN
ArchiveYear(e) ==
    IF ParseDate(e.date).valid THEN getFullYear(ParseDate(e.date).t) ELSE 0

\* Array.from(byYear.keys()).sort((a, b) => Number(b) - Number(a))
RECURSIVE YearsDescending(_)
YearsDescending(S) ==
    IF S = {} THEN <<>>
    ELSE LET m == CHOOSE y \in S : \A z \in S : z <= y
         IN  <<m>> \o YearsDescending(S \ {m})

\* the year groups buildArchiveGroups renders: year, count badge, posts
ArchiveGroups(es) ==
    LET dated == SelectSeq(es, InArchive)
        years == YearsDescending({ArchiveYear(dated[i]) : i \in 1..Len(dated)})
        posts(y) == SortEntries(SelectSeq(dated, LAMBDA e : ArchiveYear(e) = y))
    IN  [g \in 1..Len(years) |->
            [year |-> years[g], count |-> Len(posts(years[g])), posts |-> posts(years[g])]]

RECURSIVE ArchiveItemsHtml(_)
ArchiveItemsHtml(posts) ==
    IF posts = <<>> THEN <<>>
    ELSE <<"<a class=archive-item href=", Head(posts).url, ">",
           FormatDate(Head(posts).date)>> \o Head(posts).title \o <<"</a>">>
         \o ArchiveItemsHtml(Tail(posts))

\* the HTML buildArchiveGroups returns
RECURSIVE GroupsHtml(_)
GroupsHtml(groups) ==
    IF groups = <<>> THEN <<>>
    ELSE LET g == Head(groups)
         IN  <<"<div class=archive-year>", ToString(g.year), "(", ToString(g.count), ")">>
             \o ArchiveItemsHtml(g.posts) \o <<"</div>">> \o GroupsHtml(Tail(groups))

RECURSIVE ReadmeGroups(_)
ReadmeGroups(groups) ==
    IF groups = <<>> THEN <<>>
    ELSE <<"### ", ToString(Head(groups).year)>>
         \o ArchiveItemsHtml(Head(groups).posts) \o ReadmeGroups(Tail(groups))

buildReadmeContent(es) ==
    <<"# ">> \o SiteTitle
    \o (IF Len(es) = 0 THEN <<"no posts yet">> ELSE ReadmeGroups(ArchiveGroups(es)))

IndexPath == <<OUT_DIR, "index.html">>
ArchivePath == <<OUT_DIR, "archive.html">>
Error404Path == <<OUT_DIR, "404.html">>
ReadmePath == <<OUT_DIR, "README.md">>

IndexPage(es) ==
    renderTemplate(baseTpl,
        BaseVars(USERNAME, ".", renderTemplate(indexTpl, Obj("items" :> Str(ItemsHtml(es))))))

ArchivePage(es) ==
    renderTemplate(baseTpl,
        BaseVars(USERNAME, ".",
            renderTemplate(archiveTpl, Obj("groups" :> Str(GroupsHtml(ArchiveGroups(es)))))))

Error404Page ==
    renderTemplate(baseTpl,
        BaseVars(<<"404">>, ".", renderTemplate(error404Tpl, Obj("basePath" :> Str(<<".">>)))))

-----------------------------------------------------------------------------
(* The build: main run twice on one directory                              *)

NoTags == Undefined

\* file modification times
MTimeMarch2025 == DaysFromCivil(2025, 3, 10)
MTimeJune2023 == DaysFromCivil(2023, 6, 15)

Doc(title, date) ==
    [title |-> title, slug |-> <<>>, date |-> date, created |-> "", modified |-> "",
     tags |-> NoTags, summary |-> <<>>, description |-> <<>>,
     mtime |-> MTimeMarch2025, body |-> <<"x">>]

TitleTest == <<"T", "e", "s", "t">>
TitleHelloWorld == <<"H", "e", "l", "l", "o", " ", "W", "o", "r", "l", "d", "!">>
TitlePunct == <<"!", "?">>
BodyWithPlaceholder == <<"s", "e", "e", " ">> \o Placeholder(<<"siteTitle">>)

\* the front matters, bodies and modification times a document is drawn from
DocVariants ==
    {Doc(TitleTest, "2025-03-05"),
     [Doc(<<>>, "2025-07-20") EXCEPT !.body = BodyWithPlaceholder],
     Doc(TitlePunct, "2024-12-31"),
     Doc(TitleTest, "not a date"),
     [Doc(TitleTest, "1970-01-01") EXCEPT !.created = "2024-12-31"],
     [Doc(TitleHelloWorld, "2025-03-05") EXCEPT
         !.created = "2024-12-31", !.modified = "2025-07-20",
         !.tags = Str(<<"a", ",", " ", "b">>),
         !.description = <<"d">>],
     [Doc(TitleTest, "2025-07-20") EXCEPT !.slug = <<"!", "!">>],
     [Doc(TitleTest, "") EXCEPT
         !.slug = <<"A", " ", "b">>, !.created = "2024-12-31",
         !.tags = Arr(<<<<"t", "s">>, <<"a">>>>),
         !.summary = <<"s", "u", "m">>],
     [Doc(TitlePunct, "") EXCEPT !.mtime = MTimeJune2023],
     Doc(<<"a">>, "1969-12-31")}

Stems == {StemOrder[i] : i \in 1..Len(StemOrder)}

Directories ==
    UNION {[S -> DocVariants] : S \in {T \in SUBSET Stems : Cardinality(T) <= MaxDocs}}

Init ==
    /\ BuildRestIdle
    /\ dir \in Directories
    /\ fs = <<>>
    /\ entries = <<>>
    /\ archive = <<>>
    /\ writes = <<>>
    /\ next = 1
    /\ pc = "loop"
    /\ run = 1
    /\ firstRun = <<>>
    /\ exitCode = -1

\* one iteration of for (const file of files)
ProcessFile ==
    /\ pc = "loop"
    /\ next <= Len(readMdFiles(dir))
    /\ LET stem == readMdFiles(dir)[next]
           post == PostOf(stem, dir[stem])
       IN  /\ fs' = WriteFile(fs, post.outFile, post.fullHtml)
           /\ entries' = Append(entries, post.entry)
           /\ writes' = Append(writes, [file |-> stem, path |-> post.outFile])
    /\ next' = next + 1
    /\ UNCHANGED <<dir, archive, pc, run, firstRun, exitCode, buildRest>>

\* after the loop: sort, index.html, archive.html, 404.html, README.md
Aggregate ==
    /\ pc = "loop"
    /\ next > Len(readMdFiles(dir))
    /\ entries' = SortEntries(entries)
    /\ archive' = ArchiveGroups(entries')
    /\ fs' = WriteFile(WriteFile(WriteFile(WriteFile(fs,
                 IndexPath, IndexPage(entries')),
                 ArchivePath, ArchivePage(entries')),
                 Error404Path, Error404Page),
                 ReadmePath, buildReadmeContent(entries'))
    /\ pc' = "done"
    /\ exitCode' = 0
    /\ UNCHANGED <<dir, writes, next, run, firstRun, buildRest>>

\* the build is started again on the unchanged directory, the output kept
Rebuild ==
    /\ pc = "done"
    /\ run = 1
    /\ firstRun' = fs
    /\ run' = 2
    /\ entries' = <<>>
    /\ archive' = <<>>
    /\ writes' = <<>>
    /\ next' = 1
    /\ pc' = "loop"
    /\ exitCode' = -1
    /\ UNCHANGED <<dir, fs, buildRest>>

Next == ProcessFile \/ Aggregate \/ Rebuild

Spec == Init /\ [][Next]_vars

\* fs.readFile, matter or fs.stat throws for the document the loop is at: the
\* rejection of main reaches main().catch, which calls process.exit(1)
ReadFailsAfterWrite ==
    /\ pc = "loop"
    /\ next <= Len(readMdFiles(dir))
    /\ fs' = WriteFile(fs, PostOf(readMdFiles(dir)[next], dir[readMdFiles(dir)[next]]).outFile, <<>>)
    /\ pc' = "failed"
    /\ exitCode' = 1
    /\ UNCHANGED <<dir, entries, archive, writes, next, run, firstRun, buildRest>>
ReadFails ==
    /\ pc = "loop"
    /\ next <= Len(readMdFiles(dir))
    /\ pc' = "failed"
    /\ exitCode' = 1
    /\ UNCHANGED <<dir, fs, entries, archive, writes, next, run, firstRun, buildRest>>

\* one build in which reading or parsing a document may fail
NextUnreadable == ProcessFile \/ Aggregate \/ ReadFails

SpecUnreadable == Init /\ [][NextUnreadable]_vars

-----------------------------------------------------------------------------
(* normalizeMeta called on front matters with tags of every shape          *)

TagAlphabet == {"a", ",", " ", "U+00A0"}

\* the values the front-matter parser hands over as data.tags
TagsInputs ==
    {Undefined, Null, Num(0), Num(12), Bool(FALSE), Bool(TRUE),
     Obj(NoProps), Obj("name" :> Str(<<"a">>)), Obj("toString" :> Num(1))}
    \cup {Str(s) : s \in BoundedSeq(TagAlphabet, MaxTagsLen)}
    \cup {Arr(l) : l \in BoundedSeq({<<>>, <<"a">>, <<"a", ",", "b">>}, 2)}

InitMeta ==
    /\ MetaRestIdle
    /\ metaIn \in {[Doc(TitleTest, "2025-03-05") EXCEPT !.tags = t] : t \in TagsInputs}
    /\ metaOut = <<>>
    /\ metaPc = "call"

CallNormalizeMeta ==
    /\ metaPc = "call"
    /\ metaOut' = normalizeMeta(metaIn, <<"a">>)
    /\ metaPc' = "ret"
    /\ UNCHANGED <<metaIn, metaRest>>

NextMeta == CallNormalizeMeta

SpecMeta == InitMeta /\ [][NextMeta]_vars

-----------------------------------------------------------------------------
(* Post-build optimization: the CSS, JS and HTML batches                   *)

\* The minifiers are libraries.  Here they reject a text whose braces do not
\* pair up and emit the text without its whitespace.
Unbalanced(text) ==
    Cardinality({i \in 1..Len(text) : text[i] = "{"})
        # Cardinality({i \in 1..Len(text) : text[i] = "}"})

Squeeze(text) == SelectSeq(text, LAMBDA c : c \notin Whitespace)

\* a library call: ok is FALSE when it throws or rejects
TerserMinify(text) == [ok |-> ~Unbalanced(text), code |-> Squeeze(text)]
HtmlMinify(text) == [ok |-> ~Unbalanced(text), code |-> Squeeze(text)]
\* bundleAsync resolves the @import rules of the file and rejects when one
\* cannot be resolved (none can here); transform leaves them in place
BundleAsync(text) ==
    [ok |-> ~Unbalanced(text) /\ \A i \in 1..Len(text) : text[i] # "@import",
     code |-> Squeeze(text)]
Transform(text) == [ok |-> ~Unbalanced(text), code |-> Squeeze(text)]

\* the content optimizeCss returns for a file it has read
optimizeCss(originalContent) ==
    IF BundleAsync(originalContent).ok THEN BundleAsync(originalContent).code
    ELSE IF Transform(originalContent).ok THEN Transform(originalContent).code
    ELSE originalContent

\* the content optimizeJs returns: result.code || originalContent
optimizeJs(originalContent) ==
    IF TerserMinify(originalContent).ok
    THEN IF TerserMinify(originalContent).code # <<>>
         THEN TerserMinify(originalContent).code ELSE originalContent
    ELSE originalContent

\* the content optimizeHtml returns
optimizeHtmlBlanks(originalContent) ==
    IF HtmlMinify(originalContent).ok THEN HtmlMinify(originalContent).code ELSE <<>>
optimizeHtml(originalContent) ==
    IF HtmlMinify(originalContent).ok THEN HtmlMinify(originalContent).code
    ELSE originalContent

\* a path of the site: directory below the output directory, base name, extension
OptPath(d, base, ext) == [dir |-> d, base |-> base, ext |-> ext]

\* the paths in the order the directory listings give them
OptPathOrder ==
    <<OptPath(<<"assets">>, "a", ".css"), OptPath(<<"assets">>, "a", ".js"),
      OptPath(<<"assets">>, "b", ".css"), OptPath(<<"assets">>, "b", ".mjs"),
      OptPath(<<>>, "index", ".html"),
      OptPath(<<"node_modules">>, "m", ".js"),
      OptPath(<<"posts">>, "p", ".css"), OptPath(<<"posts">>, "p", ".html")>>

Passes == <<"css", "js", "html">>

\* the files a batch collects: CSS directly in assets, JS everywhere but
\* below node_modules, HTML everywhere
InPass(pass, path) ==
    CASE pass = "css" -> path.dir = <<"assets">> /\ path.ext = ".css"
      [] pass = "js" -> /\ \A i \in 1..Len(path.dir) : path.dir[i] # "node_modules"
                        /\ path.ext \in {".js", ".mjs"}
      [] pass = "html" -> path.ext = ".html"

FindFiles(pass, files) ==
    SelectSeq(OptPathOrder, LAMBDA q : q \in DOMAIN files /\ InPass(pass, q))

OptContents ==
    {<<"a", " ", "b">>, <<"a", " ", "{">>, <<"@import", " ", "a">>, <<" ">>, <<>>}

OptFileVariants ==
    {[content |-> c, readable |-> TRUE] : c \in OptContents}
    \cup {[content |-> <<"a", " ", "b">>, readable |-> FALSE]}

OptSites ==
    UNION {[S -> OptFileVariants] :
              S \in {T \in SUBSET {OptPathOrder[i] : i \in 1..Len(OptPathOrder)} :
                         Cardinality(T) <= MaxFiles}}

InitOpt ==
    /\ OptRestIdle
    /\ optFs \in OptSites
    /\ optFs0 = optFs
    /\ optPass = Passes[1]
    /\ optFiles = FindFiles(Passes[1], optFs)
    /\ optNext = 1
    /\ optCount = [q \in {"css", "js", "html"} |-> 0]
    /\ optLog = <<>>
    /\ optPc = "loop"

\* one iteration of the loop of a batch: optimizeCss / optimizeJs /
\* optimizeHtml reads the file (a failing read throws into the catch of the
\* loop body) and the batch writes the returned content back
OptimizeFile ==
    /\ optPc = "loop"
    /\ optNext <= Len(optFiles)
    /\ LET path == optFiles[optNext]
           original == optFs[path].content
           content == CASE optPass = "css" -> optimizeCss(original)
                        [] optPass = "js" -> optimizeJs(original)
                        [] optPass = "html" -> optimizeHtml(original)
       IN  /\ IF optFs[path].readable
              THEN /\ optFs' = [optFs EXCEPT ![path].content = content]
                   /\ optCount' = [optCount EXCEPT ![optPass] = @ + 1]
              ELSE UNCHANGED <<optFs, optCount>>
           /\ optLog' = Append(optLog, [pass |-> optPass, path |-> path])
    /\ optNext' = optNext + 1
    /\ UNCHANGED <<optFs0, optPass, optFiles, optPc, optRest>>

\* the batch returns its count; the next batch lists its files
FinishPass ==
    /\ optPc = "loop"
    /\ optNext > Len(optFiles)
    /\ IF optPass = "html"
       THEN /\ optPc' = "done"
            /\ UNCHANGED <<optPass, optFiles, optNext>>
       ELSE /\ optPass' = (IF optPass = "css" THEN "js" ELSE "html")
            /\ optFiles' = FindFiles(optPass', optFs)
            /\ optNext' = 1
            /\ UNCHANGED optPc
    /\ UNCHANGED <<optFs, optFs0, optCount, optLog, optRest>>

NextOpt == OptimizeFile \/ FinishPass

SpecOpt == InitOpt /\ [][NextOpt]_vars

-----------------------------------------------------------------------------
(* Heading ids: markdown-it-anchor at build time, TOCManager in the page   *)

\* encodeURIComponent: letters, digits and - _ . ! ~ * ' ( ) stay, every
\* other character becomes the percent-encoded bytes of its UTF-8 form
EncodeURIComponent(s) ==
    LET enc(c) ==
            CASE c \in AsciiUpper \cup AsciiLower \cup AsciiDigit
                      \cup {Hyphen, "_", ".", "!"} -> <<c>>
              [] c = "U+8BBE" -> <<"%", "E", "8", "%", "A", "E", "%", "B", "E">>
              [] c = "U+8BA1" -> <<"%", "E", "8", "%", "A", "E", "%", "A", "1">>
              [] OTHER -> <<"%", c>>
    IN  Concat([i \in 1..Len(s) |-> enc(s[i])])

\* the slugify default of markdown-it-anchor
Slugify(text) ==
    EncodeURIComponent(ReplaceRuns(ToLowerCase(Trim(text)), Whitespace))

\* `${slug}-${i}`
Suffixed(slug, i) == slug \o <<Hyphen>> \o Digits(i)

\* uniqueSlug of markdown-it-anchor: the slug, or the slug with the first
\* counter from 1 on that gives an id no earlier Markdown heading got
RECURSIVE UniqueSlug(_, _, _, _)
UniqueSlug(uniq, slug, slugs, i) ==
    IF uniq \notin slugs THEN uniq ELSE UniqueSlug(Suffixed(slug, i), slug, slugs, i + 1)

\* md.render on the headings of a document: a Markdown heading gets the id
\* markdown-it-anchor computes and the permalink anchor " #" behind its
\* text, a heading written as raw HTML passes through as it is
RECURSIVE RenderHeadings(_, _)
RenderHeadings(src, slugs) ==
    IF src = <<>> THEN <<>>
    ELSE LET h == Head(src)
             id == UniqueSlug(Slugify(h.text), Slugify(h.text), slugs, 1)
         IN  IF h.md
             THEN <<[level |-> h.level, text |-> h.text \o <<" ", "#">>, id |-> id]>>
                  \o RenderHeadings(Tail(src), slugs \cup {id})
             ELSE <<[level |-> h.level, text |-> h.text, id |-> h.id]>>
                  \o RenderHeadings(Tail(src), slugs)

\* this.content.querySelectorAll("h1, h2, h3, h4, h5"): positions in the page
TocHeadings(dom) == SelectSeq([i \in 1..Len(dom) |-> i], LAMBDA i : dom[i].level <= 5)

\* document.getElementById(id) finds an element
GetElementByIdNever(dom, id) == FALSE
GetElementById(dom, id) == id # <<>> /\ \E i \in 1..Len(dom) : dom[i].id = id

\* [\w\u4e00-\u9fa5\s-]
TocKept ==
    AsciiUpper \cup AsciiLower \cup AsciiDigit \cup {"_"} \cup CJK \cup Whitespace \cup {Hyphen}

\* getHeadingText(heading).toLowerCase().replace(/[^\w\u4e00-\u9fa5\s-]/g, "")
\*     .replace(/\s+/g, "-").trim()
TocBaseId(text) ==
    Trim(ReplaceRuns(SelectSeq(ToLowerCase(Trim(text)), LAMBDA c : c \in TocKept), Whitespace))

\* `heading-${index}`
HeadingIndexId(index) == <<"h", "e", "a", "d", "i", "n", "g", Hyphen>> \o Digits(index)

\* the headings a document is written with
ApiDesign == <<"A", "P", "I", " ", "U+8BBE", "U+8BA1">>

SrcHeading(md, level, text, id) == [md |-> md, level |-> level, text |-> text, id |-> id]

HeadingSources ==
    {SrcHeading(TRUE, 2, ApiDesign, <<>>),
     SrcHeading(TRUE, 2, <<>>, <<>>),
     SrcHeading(FALSE, 2, ApiDesign, <<>>),
     SrcHeading(FALSE, 3, <<"!">>, <<>>),
     SrcHeading(FALSE, 2, <<"x">>, <<"a", "p", "i", Hyphen, "U+8BBE", "U+8BA1", Hyphen, "1">>),
     SrcHeading(FALSE, 2, <<"x">>, HeadingIndexId(1)),
     SrcHeading(FALSE, 6, <<"x">>, <<>>)}

InitToc ==
    /\ TocRestIdle
    /\ tocDom \in {RenderHeadings(src, {}) : src \in BoundedSeq(HeadingSources, MaxHeadings)}
    /\ tocDom0 = tocDom
    /\ tocIndex = 0
    /\ tocBaseId = <<>>
    /\ tocId = <<>>
    /\ tocCounter = 0
    /\ tocPc = "each"

\* generateHeadingId on a heading that has an id: the id is returned
KeepId ==
    /\ tocPc = "each"
    /\ tocIndex < Len(TocHeadings(tocDom))
    /\ tocDom[TocHeadings(tocDom)[tocIndex + 1]].id # <<>>
    /\ tocIndex' = tocIndex + 1
    /\ UNCHANGED <<tocDom, tocDom0, tocBaseId, tocId, tocCounter, tocPc, tocRest>>

\* generateHeadingId on a heading without id, up to the while loop
BeginProbe ==
    /\ tocPc = "each"
    /\ tocIndex < Len(TocHeadings(tocDom))
    /\ LET heading == tocDom[TocHeadings(tocDom)[tocIndex + 1]]
       IN  /\ heading.id = <<>>
           /\ tocBaseId' = TocBaseId(heading.text)
           /\ tocId' = (IF TocBaseId(heading.text) # <<>>
                        THEN TocBaseId(heading.text) ELSE HeadingIndexId(tocIndex))
    /\ tocCounter' = 1
    /\ tocPc' = "probe"
    /\ UNCHANGED <<tocDom, tocDom0, tocIndex, tocRest>>

\* one iteration of while (document.getElementById(id))
ProbeStep ==
    /\ tocPc = "probe"
    /\ GetElementById(tocDom, tocId)
    /\ tocId' = Suffixed(tocBaseId, tocCounter)
    /\ tocCounter' = tocCounter + 1
    /\ UNCHANGED <<tocDom, tocDom0, tocIndex, tocBaseId, tocPc, tocRest>>

\* the loop is left: heading.id = id
AssignId ==
    /\ tocPc = "probe"
    /\ ~GetElementById(tocDom, tocId)
    /\ tocDom' = [tocDom EXCEPT ![TocHeadings(tocDom)[tocIndex + 1]].id = tocId]
    /\ tocIndex' = tocIndex + 1
    /\ tocPc' = "each"
    /\ UNCHANGED <<tocDom0, tocBaseId, tocId, tocCounter, tocRest>>

\* forEach has visited every heading
FinishTOC ==
    /\ tocPc = "each"
    /\ tocIndex = Len(TocHeadings(tocDom))
    /\ tocPc' = "done"
    /\ UNCHANGED <<tocDom, tocDom0, tocIndex, tocBaseId, tocId, tocCounter, tocRest>>

NextToc == KeepId \/ BeginProbe \/ ProbeStep \/ AssignId \/ FinishTOC

SpecToc == InitToc /\ [][NextToc]_vars

-----------------------------------------------------------------------------
(* Summary generation: scripts/ai.ts and scripts/gen.ts                    *)

\* String.prototype.includes, on a text written as a sequence of runs
Includes(text, part) == \E i \in 1..Len(text) : text[i] = part

\* getAIConfig: the configuration, or the exception for a missing key
getAIConfig(env) ==
    IF ~Truthy(env.apiKey) THEN Thrown
    ELSE [apiKey |-> env.apiKey, apiBase |-> env.apiBase]

\* getClient: the provider the client is created for and its baseURL, or the
\* exception for an endpoint that names neither provider
getClient(config) ==
    IF config.apiBase.t = "string" /\ Includes(config.apiBase.v, "openai")
    THEN [provider |-> "openai", baseURL |-> config.apiBase]
    ELSE IF config.apiBase.t = "string" /\ Includes(config.apiBase.v, "deepseek")
    THEN [provider |-> "deepseek", baseURL |-> config.apiBase]
    ELSE Thrown

\* generateAIText, given what generateText answers: a text, or Thrown when
\* the request fails. The trimmed text is returned; an exception is thrown
\* for a missing key, an unsupported endpoint, a failed request and a text
\* that is empty once trimmed
generateAIText(env, reply) ==
    IF getAIConfig(env) = Thrown THEN Thrown
    ELSE IF getClient(getAIConfig(env)) = Thrown THEN Thrown
    ELSE IF reply = Thrown THEN Thrown
    ELSE IF Trim(reply.v) = <<>> THEN Thrown
    ELSE Str(Trim(reply.v))

\* generateSummary: maxLength goes into the prompt and nowhere else
generateSummary(env, maxLength, reply) == generateAIText(env, reply)

\* what the hosted API may answer to one request
ApiReplies == {Thrown} \cup {Str(t) : t \in BoundedSeq({"s", " "}, MaxReplyLen)}

\* the environment the script may be started in
ApiKeys == {Undefined, Str(<<"sk-xxx">>)}

ApiBases ==
    {Undefined,
     Str(<<"https://api.", "openai", ".com/v1">>),
     Str(<<"https://api.", "deepseek", ".com">>),
     Str(<<"https://", "example", ".com">>)}

\* a selected file: unreadable, or readable with or without a summary in its
\* front matter (no summary is read as "")
SumFileVariants ==
    {[readable |-> FALSE, summary |-> <<>>],
     [readable |-> TRUE, summary |-> <<>>],
     [readable |-> TRUE, summary |-> <<"o", "l", "d">>]}

InitSum ==
    /\ SumRestIdle
    /\ sumEnv \in [apiKey : ApiKeys, apiBase : ApiBases]
    /\ sumMaxLength \in 1..MaxReplyLen
    /\ sumFs \in UNION {[1..n -> SumFileVariants] : n \in 1..MaxSumFiles}
    /\ sumFs0 = sumFs
    /\ sumNeeds = <<>>
    /\ sumSkipped = 0
    /\ sumI = 0
    /\ sumSuccess = 0
    /\ sumFail = 0
    /\ sumLog = <<>>
    /\ sumExit = -1
    /\ sumPc = "analyze"

\* analyzeFiles, and the return of generateSummaries when nothing is left
AnalyzeFiles ==
    /\ sumPc = "analyze"
    /\ sumNeeds' = SelectSeq([f \in 1..Len(sumFs) |-> f], LAMBDA f : sumFs[f].readable)
    /\ sumSkipped' = Cardinality({f \in 1..Len(sumFs) : ~sumFs[f].readable})
    /\ IF \A f \in 1..Len(sumFs) : ~sumFs[f].readable
       THEN sumPc' = "done" /\ sumExit' = 0
       ELSE sumPc' = "loop" /\ sumExit' = sumExit
    /\ UNCHANGED <<sumEnv, sumMaxLength, sumFs, sumFs0, sumI, sumSuccess, sumFail,
                   sumLog, sumRest>>

\* one iteration of the loop in which generateSummary returns: the summary
\* is written into the front matter of the file
SummaryWritten ==
    /\ sumPc = "loop"
    /\ sumI < Len(sumNeeds)
    /\ \E reply \in ApiReplies :
          LET file == sumNeeds[sumI + 1]
              summary == generateSummary(sumEnv, sumMaxLength, reply)
          IN  /\ summary # Thrown
              /\ sumFs' = [sumFs EXCEPT ![file].summary = summary.v]
              /\ sumLog' = Append(sumLog,
                                  [file |-> file, reply |-> reply, summary |-> summary,
                                   written |-> TRUE])
    /\ sumSuccess' = sumSuccess + 1
    /\ sumI' = sumI + 1
    /\ UNCHANGED <<sumEnv, sumMaxLength, sumFs0, sumNeeds, sumSkipped, sumFail,
                   sumExit, sumPc, sumRest>>

\* SummaryFails, but the failure ends the loop
SummaryFailsStopsRun ==
    /\ sumPc = "loop"
    /\ sumI < Len(sumNeeds)
    /\ \E reply \in ApiReplies :
          /\ generateSummary(sumEnv, sumMaxLength, reply) = Thrown
          /\ sumLog' = Append(sumLog, [file |-> sumNeeds[sumI + 1], reply |-> reply,
                                       summary |-> Thrown, written |-> FALSE])
    /\ sumFail' = sumFail + 1
    /\ sumI' = Len(sumNeeds)
    /\ UNCHANGED <<sumEnv, sumMaxLength, sumFs, sumFs0, sumNeeds, sumSkipped,
                   sumSuccess, sumExit, sumPc, sumRest>>

\* one iteration of the loop in which generateSummary throws: the catch
\* block counts the failure and the file is not written
SummaryFails ==
    /\ sumPc = "loop"
    /\ sumI < Len(sumNeeds)
    /\ \E reply \in ApiReplies :
          /\ generateSummary(sumEnv, sumMaxLength, reply) = Thrown
          /\ sumLog' = Append(sumLog, [file |-> sumNeeds[sumI + 1], reply |-> reply,
                                       summary |-> Thrown, written |-> FALSE])
    /\ sumFail' = sumFail + 1
    /\ sumI' = sumI + 1
    /\ UNCHANGED <<sumEnv, sumMaxLength, sumFs, sumFs0, sumNeeds, sumSkipped,
                   sumSuccess, sumExit, sumPc, sumRest>>

\* one iteration of the loop in which generateSummary returns and
\* updateFileSummary throws (the file cannot be read again or written): the
\* catch block counts the failure
UpdateFileSummaryFails ==
    /\ sumPc = "loop"
    /\ sumI < Len(sumNeeds)
    /\ \E reply \in ApiReplies :
          LET summary == generateSummary(sumEnv, sumMaxLength, reply)
          IN  /\ summary # Thrown
              /\ sumLog' = Append(sumLog, [file |-> sumNeeds[sumI + 1], reply |-> reply,
                                           summary |-> summary, written |-> FALSE])
    /\ sumFail' = sumFail + 1
    /\ sumI' = sumI + 1
    /\ UNCHANGED <<sumEnv, sumMaxLength, sumFs, sumFs0, sumNeeds, sumSkipped,
                   sumSuccess, sumExit, sumPc, sumRest>>

\* behind the loop: the statistics, and exit status 1 when a file failed
FinishSummaries ==
    /\ sumPc = "loop"
    /\ sumI = Len(sumNeeds)
    /\ sumExit' = (IF sumFail > 0 THEN 1 ELSE 0)
    /\ sumPc' = "done"
    /\ UNCHANGED <<sumEnv, sumMaxLength, sumFs, sumFs0, sumNeeds, sumSkipped, sumI,
                   sumSuccess, sumFail, sumLog, sumRest>>

NextSum ==
    \/ AnalyzeFiles
    \/ SummaryWritten
    \/ SummaryFails
    \/ UpdateFileSummaryFails
    \/ FinishSummaries

SpecSum == InitSum /\ [][NextSum]_vars

-----------------------------------------------------------------------------
(* The mobile menu: unnamed/part_000                                       *)

\* the text an attribute gets from setAttribute(name, <boolean>)
BoolText(b) == IF b THEN "true" ELSE "false"

\* Array.prototype.indexOf, 0 when the value is not in the array
RECURSIVE IndexOfFrom(_, _, _)
IndexOfFrom(arr, x, i) ==
    IF i > Len(arr) THEN 0 ELSE IF arr[i] = x THEN i ELSE IndexOfFrom(arr, x, i + 1)

\* arr.splice(index, 1)
Splice1(arr, index) == [i \in 1..(Len(arr) - 1) |-> IF i < index THEN arr[i] ELSE arr[i + 1]]

\* addObserver: callbacks are functions, so every one is pushed
addObserver(m, callback) == [m EXCEPT !.observers = Append(@, callback)]

\* removeObserver: the first occurrence is spliced out
removeObserver(m, callback) ==
    IF IndexOfFrom(m.observers, callback, 1) > 0
    THEN [m EXCEPT !.observers = Splice1(@, IndexOfFrom(m.observers, callback, 1))]
    ELSE m

\* notifyObservers: forEach walks the live array by index; each callback is
\* called with (action, this.isOpen) inside a try/catch. A callback returns,
\* throws, or removes itself from the observers before it returns
RECURSIVE ForEachObserver(_, _, _)
ForEachObserver(m, action, i) ==
    IF i > Len(m.observers) THEN m
    ELSE LET callback == m.observers[i]
             called == [m EXCEPT !.notes = Append(@, [observer |-> callback,
                                                       action |-> action,
                                                       isOpen |-> m.isOpen])]
         IN  ForEachObserver(IF callback.does = "removesItself"
                             THEN removeObserver(called, callback) ELSE called,
                             action, i + 1)

notifyObservers(m, action) == ForEachObserver(m, action, 1)

\* updateMenuState reads this.menu first and this.menuButton last: a missing
\* element makes it throw a TypeError at that point
UpdateThrows(els) == ~els.menu \/ ~els.button

updateMenuStateNoBody(m, els) ==
    IF ~els.menu THEN m
    ELSE IF ~els.button THEN [m EXCEPT !.menuOpenClass = m.isOpen]
    ELSE [m EXCEPT !.menuOpenClass = m.isOpen,
                   !.ariaExpanded = BoolText(m.isOpen),
                   !.ariaHidden = BoolText(~m.isOpen)]

updateMenuState(m, els) ==
    IF ~els.menu THEN m
    ELSE IF ~els.button
    THEN [m EXCEPT !.menuOpenClass = m.isOpen, !.bodyOpenClass = m.isOpen]
    ELSE [m EXCEPT !.menuOpenClass = m.isOpen, !.bodyOpenClass = m.isOpen,
                   !.ariaExpanded = BoolText(m.isOpen),
                   !.ariaHidden = BoolText(~m.isOpen)]

\* open: nothing on an open menu; else isOpen is set, the page is updated and
\* the observers are told, and an exception on the way is caught and logged
open(m, els) ==
    IF m.isOpen THEN m
    ELSE IF UpdateThrows(els) THEN updateMenuState([m EXCEPT !.isOpen = TRUE], els)
    ELSE notifyObservers(updateMenuState([m EXCEPT !.isOpen = TRUE], els), "open")

\* close: the same, the other way
close(m, els) ==
    IF ~m.isOpen THEN m
    ELSE IF UpdateThrows(els) THEN updateMenuState([m EXCEPT !.isOpen = FALSE], els)
    ELSE notifyObservers(updateMenuState([m EXCEPT !.isOpen = FALSE], els), "close")

toggle(m, els) == IF m.isOpen THEN close(m, els) ELSE open(m, els)

\* lg breakpoint
LgBreakpoint == 1024

\* handleResize
handleResize(m, els, width) == IF ~(width <= LgBreakpoint) /\ m.isOpen THEN close(m, els) ELSE m

\* initMenuState
initMenuState(m, els) == updateMenuState([m EXCEPT !.isOpen = m.menuOpenClass], els)

\* new MobileMenu() on a page: the fields of the constructor, then init,
\* which stops early when an element is missing
NewMobileMenu(page, els, width) ==
    LET m == [isOpen |-> FALSE, observers |-> <<>>, notes |-> <<>>,
              menuOpenClass |-> page.menuOpenClass, bodyOpenClass |-> page.bodyOpenClass,
              ariaExpanded |-> page.ariaExpanded, ariaHidden |-> page.ariaHidden]
    IN  IF ~els.button \/ ~els.menu THEN m
        ELSE handleResize(initMenuState(m, els), els, width)

\* the window widths and the callbacks of the model
Widths == {LgBreakpoint - 1, LgBreakpoint, LgBreakpoint + 1}

Callbacks == [does : {"returns", "throws", "removesItself"}, n : 1..MaxObservers]

\* the pages the script may be loaded in: an absent element has no class
\* and no attribute
MenuPages ==
    {p \in [els : [button : BOOLEAN, menu : BOOLEAN],
            menuOpenClass : BOOLEAN, bodyOpenClass : BOOLEAN,
            ariaExpanded : {"unset", "true"}, ariaHidden : {"unset"}] :
        /\ ~p.els.menu => ~p.menuOpenClass
        /\ ~p.els.button => p.ariaExpanded = "unset"}

InitMenu ==
    /\ MenuRestIdle
    /\ \E p \in MenuPages, w \in Widths :
          /\ menuEls = p.els
          /\ innerWidth = w
          /\ mobileMenu = NewMobileMenu(p, p.els, w)
    /\ menuCall = [op |-> "new", wasOpen |-> FALSE, observers |-> <<>>]

\* an operation op that takes the menu to m
MenuDoes(op, m) ==
    /\ mobileMenu' = m
    /\ menuCall' = [op |-> op, wasOpen |-> mobileMenu.isOpen,
                    observers |-> mobileMenu.observers]

\* the instance as an operation finds it: the calls of the last one forgotten
MenuNow == [mobileMenu EXCEPT !.notes = <<>>]

\* the listeners are bound when both elements exist
MenuBound == menuEls.button /\ menuEls.menu

CallToggle ==
    /\ MenuDoes("toggle", toggle(MenuNow, menuEls))
    /\ UNCHANGED <<menuEls, innerWidth, menuRest>>

CallOpen ==
    /\ MenuDoes("open", open(MenuNow, menuEls))
    /\ UNCHANGED <<menuEls, innerWidth, menuRest>>

CallClose ==
    /\ MenuDoes("close", close(MenuNow, menuEls))
    /\ UNCHANGED <<menuEls, innerWidth, menuRest>>

CallAddObserver ==
    /\ Len(mobileMenu.observers) < MaxObservers
    /\ \E callback \in Callbacks : MenuDoes("addObserver", addObserver(MenuNow, callback))
    /\ UNCHANGED <<menuEls, innerWidth, menuRest>>

CallRemoveObserver ==
    /\ \E callback \in Callbacks :
          MenuDoes("removeObserver", removeObserver(MenuNow, callback))
    /\ UNCHANGED <<menuEls, innerWidth, menuRest>>

\* handleMenuToggle: a click on the button, which does not reach the document
ClickButton ==
    /\ MenuBound
    /\ MenuDoes("click button", toggle(MenuNow, menuEls))
    /\ UNCHANGED <<menuEls, innerWidth, menuRest>>

\* handleMenuLinkClick, then handleOutsideClick with a target in the menu
ClickLink ==
    /\ MenuBound
    /\ MenuDoes("click link", IF mobileMenu.isOpen THEN close(MenuNow, menuEls) ELSE MenuNow)
    /\ UNCHANGED <<menuEls, innerWidth, menuRest>>

\* handleOutsideClick: a click elsewhere in the menu, or outside menu and button
ClickDocument ==
    /\ MenuBound
    /\ \E inside \in BOOLEAN :
          MenuDoes("click document",
                   IF mobileMenu.isOpen /\ ~inside THEN close(MenuNow, menuEls) ELSE MenuNow)
    /\ UNCHANGED <<menuEls, innerWidth, menuRest>>

\* handleKeydown
Keydown ==
    /\ MenuBound
    /\ \E key \in {"Escape", "Enter"} :
          MenuDoes("keydown",
                   IF mobileMenu.isOpen /\ key = "Escape"
                   THEN close(MenuNow, menuEls) ELSE MenuNow)
    /\ UNCHANGED <<menuEls, menuRest>>
    /\ UNCHANGED innerWidth

\* the window is resized and handleResize runs
Resize ==
    /\ MenuBound
    /\ \E width \in Widths :
          /\ innerWidth' = width
          /\ MenuDoes("resize", handleResize(MenuNow, menuEls, width))
    /\ UNCHANGED <<menuEls, menuRest>>

NextMenu ==
    \/ CallToggle \/ CallOpen \/ CallClose \/ CallAddObserver \/ CallRemoveObserver
    \/ ClickButton \/ ClickLink \/ ClickDocument \/ Keydown \/ Resize

SpecMenu == InitMenu /\ [][NextMenu]_vars

-----------------------------------------------------------------------------
(* The theme switcher: ThemeManager in unnamed/part_002                    *)

Dark == Str(<<"dark">>)
Light == Str(<<"light">>)

\* the manager and the page state it keeps, as one value
ThemeState(current, attribute, stored) ==
    [currentTheme |-> current, dataTheme |-> attribute, themeStorage |-> stored]

\* getStoredTheme: the stored value, null when there is none or access throws
getStoredTheme(t, throws) == IF throws THEN Null ELSE t.themeStorage

\* getSystemTheme
getSystemTheme(dark) == IF dark THEN Dark ELSE Light

\* saveTheme: an exception of setItem is caught
saveTheme(t, throws, theme) == IF throws THEN t ELSE [t EXCEPT !.themeStorage = theme]

\* classList.remove(token) throws on an empty token and on one with whitespace
RemoveClassThrows(token) ==
    token.v = <<>> \/ \E i \in 1..Len(token.v) : token.v[i] \in Whitespace

\* applyTheme: the class of the old theme is removed, data-theme and
\* currentTheme are set and the theme is saved; an exception is caught
applyTheme(t, throws, theme) ==
    IF RemoveClassThrows(t.currentTheme) THEN t
    ELSE saveTheme([t EXCEPT !.dataTheme = theme, !.currentTheme = theme], throws, theme)

\* toggleTheme: newTheme, which is also what it returns
NewTheme(t) == IF t.currentTheme = Dark THEN Light ELSE Dark

toggleTheme(t, throws) == applyTheme(t, throws, NewTheme(t))

\* setTheme: false and nothing else for a value that is neither theme
setTheme(t, throws, theme) == IF theme # Dark /\ theme # Light THEN t ELSE applyTheme(t, throws, theme)

\* handleThemeChange of watchSystemTheme, e.matches being dark
handleThemeChange(t, throws, dark) ==
    IF ~Truthy(getStoredTheme(t, throws)) THEN applyTheme(t, throws, getSystemTheme(dark)) ELSE t

\* resetTheme: an exception of removeItem is caught and ends it
resetTheme(t, throws, dark) ==
    IF throws THEN t
    ELSE applyTheme([t EXCEPT !.themeStorage = Null], throws, getSystemTheme(dark))

\* new ThemeManager(): currentTheme is the stored value or else the system
\* theme, and init applies it
NewThemeManager(stored, throws, dark) ==
    LET t == ThemeState(Light, Null, stored)
        storedTheme == getStoredTheme(t, throws)
    IN  applyTheme([t EXCEPT !.currentTheme = IF Truthy(storedTheme) THEN storedTheme
                                              ELSE getSystemTheme(dark)],
                   throws, IF Truthy(storedTheme) THEN storedTheme ELSE getSystemTheme(dark))

\* what local storage may hold under blog-theme when the page loads
StoredThemes == {Null, Dark, Light, Str(<<"blue">>), Str(<<>>), Str(<<"dark", " ">>)}

\* the arguments setTheme is called with
SetThemeArgs == {Dark, Light, Str(<<"blue">>), Undefined}

InitTheme ==
    /\ ThemeRestIdle
    /\ storageThrows \in BOOLEAN
    /\ systemDark \in BOOLEAN
    /\ themeButton \in BOOLEAN
    /\ \E stored \in StoredThemes :
          LET t == NewThemeManager(stored, storageThrows, systemDark)
          IN  /\ currentTheme = t.currentTheme
              /\ dataTheme = t.dataTheme
              /\ themeStorage = t.themeStorage
              /\ themeMode = (IF Truthy(getStoredTheme(ThemeState(Light, Null, stored),
                                                        storageThrows))
                              THEN "stored" ELSE "system")
    /\ themeCall = [op |-> "new", arg |-> Undefined, ret |-> Undefined,
                    before |-> ThemeState(Light, Null, Null), mode |-> "",
                    earlier |-> "", earlierTheme |-> Light]

ThemeNow == ThemeState(currentTheme, dataTheme, themeStorage)

\* an operation op(arg) that returns ret and takes the manager to t
ThemeDoes(op, arg, ret, t, mode) ==
    /\ currentTheme' = t.currentTheme
    /\ dataTheme' = t.dataTheme
    /\ themeStorage' = t.themeStorage
    /\ themeMode' = mode
    /\ themeCall' = [op |-> op, arg |-> arg, ret |-> ret, before |-> ThemeNow,
                     mode |-> themeMode, earlier |-> themeCall.op,
                     earlierTheme |-> themeCall.before.currentTheme]

CallSetTheme ==
    /\ \E theme \in SetThemeArgs :
          ThemeDoes("setTheme", theme, Bool(theme = Dark \/ theme = Light),
                    setTheme(ThemeNow, storageThrows, theme),
                    IF theme = Dark \/ theme = Light THEN "manual" ELSE themeMode)
    /\ UNCHANGED <<storageThrows, systemDark, themeButton, themeRest>>

CallToggleTheme ==
    /\ ThemeDoes("toggleTheme", Undefined, NewTheme(ThemeNow),
                 toggleTheme(ThemeNow, storageThrows), "manual")
    /\ UNCHANGED <<storageThrows, systemDark, themeButton, themeRest>>

\* handleThemeToggle: a click on a theme toggle button
ClickThemeToggle ==
    /\ themeButton
    /\ ThemeDoes("click", Undefined, Undefined, toggleTheme(ThemeNow, storageThrows), "manual")
    /\ UNCHANGED <<storageThrows, systemDark, themeButton, themeRest>>

CallResetTheme ==
    /\ ThemeDoes("resetTheme", Undefined, Undefined,
                 resetTheme(ThemeNow, storageThrows, systemDark), "reset")
    /\ UNCHANGED <<storageThrows, systemDark, themeButton, themeRest>>

\* the system colour scheme changes and the media query listener runs
SystemThemeChange ==
    /\ systemDark' = ~systemDark
    /\ ThemeDoes("systemChange", Bool(~systemDark), Undefined,
                 handleThemeChange(ThemeNow, storageThrows, ~systemDark), themeMode)
    /\ UNCHANGED <<storageThrows, themeButton, themeRest>>

NextTheme ==
    CallSetTheme \/ CallToggleTheme \/ ClickThemeToggle \/ CallResetTheme \/ SystemThemeChange

SpecTheme == InitTheme /\ [][NextTheme]_vars

-----------------------------------------------------------------------------
(* The deploy script: scripts/deploy.ts                                    *)

\* an existing directory with these entries
Dir(files) == [exists |-> TRUE, entries |-> files]

\* isGitRepository
isGitRepository(d) == ".git" \in d.entries

\* one executed command and whether it succeeded
Ran(cmd, ok) == [cmd |-> cmd, ok |-> ok]

\* the exception reaches the try/catch around deploy(): process.exit(1)
DeployFails(log) ==
    /\ deployLog' = log
    /\ deployPc' = "failed"
    /\ deployExit' = 1

\* the run goes on with step pc
DeployGoesOn(log, step) ==
    /\ deployLog' = log
    /\ deployPc' = step
    /\ deployExit' = deployExit

\* checkGitInstalled
CheckGitInstalled ==
    /\ deployPc = "check git"
    /\ \E ok \in BOOLEAN :
          IF ok THEN DeployGoesOn(Append(deployLog, Ran("git --version", TRUE)), "clear")
          ELSE DeployFails(Append(deployLog, Ran("git --version", FALSE)))
    /\ UNCHANGED <<outDir, outDir0, forcesPush, statusOut, unpushedOut, deployRest>>

\* checkAndClearOutputDir: a missing directory throws; else every entry but
\* .git is removed, one after the other, and a removal that throws ends it
CheckAndClearOutputDir ==
    /\ deployPc = "clear"
    /\ IF ~outDir.exists
       THEN /\ DeployFails(Append(deployLog, Ran("clear", FALSE)))
            /\ outDir' = outDir
       ELSE \/ /\ outDir' = Dir(outDir.entries \cap {".git"})
               /\ DeployGoesOn(Append(deployLog, Ran("clear", TRUE)), "repository")
            \/ /\ \E left \in SUBSET outDir.entries :
                     /\ outDir.entries \cap {".git"} \subseteq left
                     /\ left \ {".git"} # {}
                     /\ outDir' = Dir(left)
               /\ DeployFails(Append(deployLog, Ran("clear", FALSE)))
    /\ UNCHANGED <<outDir0, forcesPush, statusOut, unpushedOut, deployRest>>

\* no .git in the output directory: git init, git remote add origin
InitRepository ==
    /\ deployPc = "repository"
    /\ ~isGitRepository(outDir)
    /\ \/ /\ outDir' = outDir
          /\ DeployFails(Append(deployLog, Ran("git init", FALSE)))
       \/ /\ outDir' = Dir(outDir.entries \cup {".git"})
          /\ \E ok \in BOOLEAN :
                LET log == deployLog \o <<Ran("git init", TRUE), Ran("git remote add", ok)>>
                IN  IF ok THEN DeployGoesOn(log, "checkout") ELSE DeployFails(log)
    /\ UNCHANGED <<outDir0, forcesPush, statusOut, unpushedOut, deployRest>>

\* a repository exists: origin is read; set when it differs, added when
\* reading it fails
UpdateRemote ==
    /\ deployPc = "repository"
    /\ isGitRepository(outDir)
    /\ \/ DeployGoesOn(Append(deployLog, Ran("git remote get-url", TRUE)), "checkout")
       \/ \E cmd \in {"git remote set-url", "git remote add"}, ok \in BOOLEAN :
             LET log == deployLog \o <<Ran("git remote get-url", cmd = "git remote set-url"),
                                       Ran(cmd, ok)>>
             IN  IF ok THEN DeployGoesOn(log, "checkout") ELSE DeployFails(log)
    /\ UNCHANGED <<outDir, outDir0, forcesPush, statusOut, unpushedOut, deployRest>>

\* git checkout -B <branch>, and git checkout -b <branch> when that fails
Checkout ==
    /\ deployPc = "checkout"
    /\ \/ DeployGoesOn(Append(deployLog, Ran("git checkout -B", TRUE)), "build")
       \/ \E ok \in BOOLEAN :
             LET log == deployLog \o <<Ran("git checkout -B", FALSE),
                                       Ran("git checkout -b", ok)>>
             IN  IF ok THEN DeployGoesOn(log, "build") ELSE DeployFails(log)
    /\ UNCHANGED <<outDir, outDir0, forcesPush, statusOut, unpushedOut, deployRest>>

BuildFailureIgnored ==
    /\ deployPc = "build"
    /\ \E ok \in BOOLEAN :
          /\ DeployGoesOn(Append(deployLog, Ran("pnpm build", ok)), "stage")
          /\ outDir' = (IF ok THEN Dir(outDir.entries \cup {"index.html", "posts"})
                        ELSE outDir)
    /\ UNCHANGED <<outDir0, forcesPush, statusOut, unpushedOut, deployRest>>

\* build: pnpm build, which writes the site into the output directory
Build ==
    /\ deployPc = "build"
    /\ \/ /\ DeployGoesOn(Append(deployLog, Ran("pnpm build", TRUE)), "stage")
          /\ outDir' = Dir(outDir.entries \cup {"index.html", "posts"})
       \/ /\ DeployFails(Append(deployLog, Ran("pnpm build", FALSE)))
          /\ outDir' = outDir
    /\ UNCHANGED <<outDir0, forcesPush, statusOut, unpushedOut, deployRest>>

\* gitAddAll
Stage ==
    /\ deployPc = "stage"
    /\ \E ok \in BOOLEAN :
          IF ok THEN DeployGoesOn(Append(deployLog, Ran("git add -A", TRUE)), "status")
          ELSE DeployFails(Append(deployLog, Ran("git add -A", FALSE)))
    /\ UNCHANGED <<outDir, outDir0, forcesPush, statusOut, unpushedOut, deployRest>>

\* git status --porcelain: hasChanges; a failure exits with status 1
InspectStatus ==
    /\ deployPc = "status"
    /\ \/ /\ DeployFails(Append(deployLog, Ran("git status", FALSE)))
          /\ statusOut' = statusOut
       \/ \E out \in {"", "changes"} :
             /\ statusOut' = out
             /\ DeployGoesOn(Append(deployLog, Ran("git status", TRUE)),
                             IF out # "" THEN "commit" ELSE "unpushed")
    /\ UNCHANGED <<outDir, outDir0, forcesPush, unpushedOut, deployRest>>

InspectUnpushedNeverSkips ==
    /\ deployPc = "unpushed"
    /\ \E out \in {"", "commits", "fails"} :
          /\ unpushedOut' = out
          /\ DeployGoesOn(Append(deployLog, Ran("git log", out # "fails")), "push")
    /\ UNCHANGED <<outDir, outDir0, forcesPush, statusOut, deployRest>>

\* no changes: git log origin/<branch>..HEAD; deploy returns when it prints
\* nothing, and goes on to the push when it prints commits or fails
InspectUnpushed ==
    /\ deployPc = "unpushed"
    /\ \E out \in {"", "commits", "fails"} :
          /\ unpushedOut' = out
          /\ deployLog' = Append(deployLog, Ran("git log", out # "fails"))
          /\ deployPc' = (IF out = "" THEN "done" ELSE "push")
          /\ deployExit' = (IF out = "" THEN 0 ELSE deployExit)
    /\ UNCHANGED <<outDir, outDir0, forcesPush, statusOut, deployRest>>

\* hasChanges: git commit
Commit ==
    /\ deployPc = "commit"
    /\ \E ok \in BOOLEAN :
          IF ok THEN DeployGoesOn(Append(deployLog, Ran("git commit", TRUE)), "push")
          ELSE DeployFails(Append(deployLog, Ran("git commit", FALSE)))
    /\ UNCHANGED <<outDir, outDir0, forcesPush, statusOut, unpushedOut, deployRest>>

\* git push -f origin <branch>, or git push origin <branch>
Push ==
    /\ deployPc = "push"
    /\ \E ok \in BOOLEAN :
          LET log == Append(deployLog,
                            Ran(IF forcesPush THEN "git push -f" ELSE "git push", ok))
          IN  IF ok
              THEN deployLog' = log /\ deployPc' = "done" /\ deployExit' = 0
              ELSE DeployFails(log)
    /\ UNCHANGED <<outDir, outDir0, forcesPush, statusOut, unpushedOut, deployRest>>

\* the output directory a run may find
OutDirs ==
    {[exists |-> FALSE, entries |-> {}]}
    \cup {Dir(files) : files \in SUBSET {".git", "index.html", "posts"}}

InitDeploy ==
    /\ DeployRestIdle
    /\ outDir \in OutDirs
    /\ outDir0 = outDir
    /\ forcesPush \in BOOLEAN
    /\ deployLog = <<>>
    /\ statusOut = "none"
    /\ unpushedOut = "none"
    /\ deployExit = -1
    /\ deployPc = "check git"

NextDeploy ==
    \/ CheckGitInstalled \/ CheckAndClearOutputDir \/ InitRepository \/ UpdateRemote
    \/ Checkout \/ Build \/ Stage \/ InspectStatus \/ InspectUnpushed \/ Commit \/ Push

SpecDeploy == InitDeploy /\ [][NextDeploy]_vars

-----------------------------------------------------------------------------
(* runOptimization: the three passes and the report                       *)

\* what a pass can do: return the number of files it optimized or throw
\* (for CSS also when fs.access of the assets directory fails)
PassOutcomes ==
    {[threw |-> FALSE, fileCount |-> n] : n \in 0..MaxFiles}
    \cup {[threw |-> TRUE, fileCount |-> 0]}

\* report.results.<pass> = {...}
SetResult(r, pass, entry) ==
    [r EXCEPT !.results =
        {e \in r.results : e.pass # pass}
        \cup {[pass |-> pass, optimized |-> entry.optimized,
               fileCount |-> entry.fileCount, errors |-> entry.errors]}]

\* the try block of a pass that ended with the code of the catch block
RunPassIgnoringThrow(pass, after) ==
    /\ runPc = pass
    /\ IF optimizeConfig[pass]
       THEN \E o \in PassOutcomes :
               /\ passCalls' = Append(passCalls, [pass |-> pass, threw |-> o.threw])
               /\ report' =
                     [SetResult(report, pass,
                                [optimized |-> TRUE, fileCount |-> o.fileCount,
                                 errors |-> <<>>])
                        EXCEPT !.summary.successCount = @ + 1]
       ELSE UNCHANGED <<passCalls, report>>
    /\ runPc' = after
    /\ UNCHANGED <<optimizeConfig, reportFile, repRest>>

\* one of the three if statements: an enabled pass runs inside try/catch and
\* leaves its entry in report.results and one count in report.summary
RunPass(pass, after) ==
    /\ runPc = pass
    /\ IF optimizeConfig[pass]
       THEN \E o \in PassOutcomes :
               /\ passCalls' = Append(passCalls, [pass |-> pass, threw |-> o.threw])
               /\ report' =
                     IF o.threw
                     THEN [SetResult(report, pass,
                                     [optimized |-> FALSE, fileCount |-> 0,
                                      errors |-> <<pass>>])
                             EXCEPT !.summary.errorCount = @ + 1]
                     ELSE [SetResult(report, pass,
                                     [optimized |-> TRUE, fileCount |-> o.fileCount,
                                      errors |-> <<>>])
                             EXCEPT !.summary.successCount = @ + 1]
       ELSE UNCHANGED <<passCalls, report>>
    /\ runPc' = after
    /\ UNCHANGED <<optimizeConfig, reportFile, repRest>>

RunCss == RunPass("css", "js")

RunJs == RunPass("js", "html")

RunHtml == RunPass("html", "report")

\* the report file: written when general.generateReport is set, a failing
\* write becomes a warning of the report
WriteReport ==
    /\ runPc = "report"
    /\ IF optimizeConfig.generateReport
       THEN \/ reportFile' = {report} /\ report' = report
            \/ /\ reportFile' = reportFile
               /\ report' = [report EXCEPT !.summary.warnings = Append(@, "report")]
       ELSE UNCHANGED <<reportFile, report>>
    /\ runPc' = "return"
    /\ UNCHANGED <<optimizeConfig, passCalls, repRest>>

\* the closing log lines (the detailed ones when verbose) and return report
ReturnReport ==
    /\ runPc = "return"
    /\ runPc' = "returned"
    /\ UNCHANGED <<optimizeConfig, report, passCalls, reportFile, repRest>>

InitRep ==
    /\ RepRestIdle
    /\ optimizeConfig \in [css : BOOLEAN, js : BOOLEAN, html : BOOLEAN,
                           generateReport : BOOLEAN]
    /\ report = [results |-> {},
                 summary |-> [totalFiles |-> 0, successCount |-> 0,
                              errorCount |-> 0, warnings |-> <<>>]]
    /\ passCalls = <<>>
    /\ reportFile = {}
    /\ runPc = "css"

NextRep == RunCss \/ RunJs \/ RunHtml \/ WriteReport \/ ReturnReport

SpecRep == InitRep /\ [][NextRep]_vars




-----------------------------------------------------------------------------
(* Properties of the build                                                 *)

\* the document a write of this run came from
DataOf(w) == dir[w.file]
MetaOf(w) == normalizeMeta(DataOf(w), <<w.file>>)

\* C1: within one build, two distinct source documents are never written to
\* the same output path.
C1_DistinctOutputPaths ==
    \A i, j \in 1..Len(writes) : i # j => writes[i].path # writes[j].path

\* the date the normalizer chose when it parses, else the modification time
EffectiveDate(w) ==
    LET p == ParseDate(MetaOf(w).date)
    IN  IF MetaOf(w).date # "" /\ p.valid THEN p.t ELSE DataOf(w).mtime

\* C4, on the documents whose slug source sanitizes to a non-empty slug (C5 is
\* about the others): the post is written to posts/<YYYY>/<MM>/<slug>.html,
\* YYYY and MM the calendar year and two-digit month of the effective date,
\* slug the sanitized explicit slug, else title, else file name stem.
C4_PostPath ==
    \A k \in 1..Len(writes) :
        LET w == writes[k]
            slug == sanitizeSlug(SlugSource(DataOf(w), MetaOf(w), <<w.file>>))
            ymd == CivilFromDays(EffectiveDate(w))
        IN  slug # <<>> =>
                w.path = <<OUT_DIR, "posts", ToString(ymd[1]), PadStart2(ymd[2]),
                           StrOf(slug) \o ".html">>

\* the file name of a path
FileName(path) == path[Len(path)]

EmptySlugSource(w) ==
    sanitizeSlug(SlugSource(DataOf(w), MetaOf(w), <<w.file>>)) = <<>>

\* C5 as stated: a slug source that sanitizes to the empty string gives the
\* slug post followed by an index number.
C5_AsStated ==
    \A k \in 1..Len(writes) :
        EmptySlugSource(writes[k]) =>
            FileName(writes[k].path) \in
                {"post" \o sep \o ToString(n) \o ".html" :
                    sep \in {"", "-"}, n \in 0..(MaxDocs + 1)}

\* C5: a slug source that sanitizes to the empty string gives the sanitized
\* file name stem as the slug, and post (with no number) when the stem
\* sanitizes to the empty string as well.
C5_EmptySlugFallsBackToStem ==
    \A k \in 1..Len(writes) :
        EmptySlugSource(writes[k]) =>
            FileName(writes[k].path) =
                (IF sanitizeSlug(<<writes[k].file>>) # <<>>
                 THEN StrOf(sanitizeSlug(<<writes[k].file>>))
                 ELSE "post") \o ".html"

C5_Witness ==
    \E i, j \in 1..Len(writes) :
        /\ EmptySlugSource(writes[i]) /\ FileName(writes[i].path) = "post.html"
        /\ EmptySlugSource(writes[j]) /\ FileName(writes[j].path) = "a.html"

Contains(s, sub) ==
    \E i \in 0..(Len(s) - Len(sub)) : SubSeq(s, i + 1, i + Len(sub)) = sub

LastWriteTo(k) == \A j \in (k + 1)..Len(writes) : writes[j].path # writes[k].path

\* C8: the rendered body of a document reaches its page verbatim through
\* both renders; placeholder text in it is not resolved.
C8_BodyEmittedVerbatim ==
    \A k \in 1..Len(writes) :
        LastWriteTo(k) =>
            Contains(fs[writes[k].path], MdRender(DataOf(writes[k]).body))

C8_Witness ==
    /\ pc = "done"
    /\ \E k \in 1..Len(writes) :
          /\ DataOf(writes[k]).body = BodyWithPlaceholder
          /\ Contains(fs[writes[k].path], Placeholder(<<"siteTitle">>))
          /\ Contains(fs[writes[k].path], <<"<nav>">> \o SiteTitle)

\* the hrefs of the post items of an index page, in page order
IndexHrefs(page) ==
    LET idx == SelectSeq([i \in 1..Len(page) |-> i],
                         LAMBDA i : i > 1 /\ page[i - 1] = ItemOpen)
    IN  [j \in 1..Len(idx) |-> page[idx[j]]]

\* C9: after the build the index lists one entry per source document, by
\* date key in non-increasing order.
C9_IndexOnePerDocumentSorted ==
    pc = "done" =>
        LET files == readMdFiles(dir)
            n == Len(files)
        IN  /\ Len(entries) = n
            /\ \E f \in [1..n -> 1..n] :
                  /\ \A a, b \in 1..n : a # b => f[a] # f[b]
                  /\ \A a \in 1..n : entries[f[a]] = PostOf(files[a], dir[files[a]]).entry
            /\ \A a, b \in 1..n : a < b => entries[a].dateValue >= entries[b].dateValue
            /\ IndexHrefs(fs[IndexPath]) = [a \in 1..n |-> entries[a].url]

C9_Witness ==
    /\ pc = "done"
    /\ Len(entries) = 3
    /\ entries[1].dateValue > entries[2].dateValue
    /\ entries[2].dateValue > entries[3].dateValue
    /\ entries[1] = PostOf("c", dir["c"]).entry
    /\ entries[3] = PostOf("a", dir["a"]).entry
    /\ entries[2].date = "not a date"

Occurrences(s, x) == Cardinality({i \in 1..Len(s) : s[i] = x})

\* C10: an entry with a parseable date is in exactly one archive group, that
\* of the year of its date, and an entry without one is in no group; groups
\* are in descending order of year, the entries of a group in non-increasing
\* order of date key, and the count of a group is the number of its entries.
C10_ArchiveGroups ==
    pc = "done" =>
        /\ \A g, h \in 1..Len(archive) : g < h => archive[g].year > archive[h].year
        /\ \A g \in 1..Len(archive) :
              LET posts == archive[g].posts
              IN  /\ archive[g].count = Len(posts)
                  /\ posts # <<>>
                  /\ \A a, b \in 1..Len(posts) :
                        a < b => posts[a].dateValue >= posts[b].dateValue
        /\ \A i \in 1..Len(entries) :
              LET e == entries[i]
                  p == ParseDate(e.date)
                  in(g) == Occurrences(archive[g].posts, e)
              IN  IF p.valid
                  THEN \E g \in 1..Len(archive) :
                          /\ archive[g].year = CivilFromDays(p.t)[1]
                          /\ in(g) = Occurrences(entries, e)
                          /\ \A h \in 1..Len(archive) : h # g => in(h) = 0
                  ELSE \A g \in 1..Len(archive) : in(g) = 0
        /\ fs[ArchivePath] = ArchivePage(entries)

C10_Witness ==
    /\ pc = "done"
    /\ Len(entries) = 3
    /\ Len(archive) = 2
    /\ archive[1].count = 1
    /\ archive[2].count = 1
    /\ \E i \in 1..3 : entries[i].date = "not a date"

\* the listing of an index page: what stands between its section tags
IndexListing(page) ==
    LET a == CHOOSE i \in 1..Len(page) : page[i] = "<section>"
        b == CHOOSE i \in 1..Len(page) : page[i] = "</section>"
    IN  SubSeq(page, a + 1, b - 1)

\* C11: the build of a directory without documents completes, the listing of
\* its index page is a "no posts" placeholder and not an empty fragment, and
\* its archive has no year group.
C11_EmptyDirectory ==
    (pc = "done" /\ readMdFiles(dir) = <<>>) =>
        /\ exitCode = 0
        /\ IndexListing(fs[IndexPath]) # <<>>
        /\ archive = <<>>

\* the date field of the front matter is present and does not parse
UnparseableDate(data) == data.date # "" /\ ~ParseDate(data.date).valid

\* the url of a post in year and month of the instant t
UrlAt(t, data, stem) ==
    "./posts/" \o ToString(CivilFromDays(t)[1]) \o "/" \o PadStart2(CivilFromDays(t)[2])
    \o "/" \o StrOf(BaseSlug(data, normalizeMeta(data, <<stem>>), <<stem>>)) \o ".html"

\* C12: a document whose date field is present and does not parse is written
\* under the year and month of its modification time, and the finished build
\* (exit status 0) lists it in the index with the modification time as sort
\* key, behind every entry with a later key and before every earlier one.
C12_UnparseableDateUsesMTime ==
    /\ \A k \in 1..Len(writes) :
          LET data == DataOf(writes[k])
              ymd == CivilFromDays(data.mtime)
          IN  UnparseableDate(data) =>
                  /\ writes[k].path[3] = ToString(ymd[1])
                  /\ writes[k].path[4] = PadStart2(ymd[2])
    /\ pc = "done" =>
          /\ exitCode = 0
          /\ \A stem \in DOMAIN dir :
                UnparseableDate(dir[stem]) =>
                    \E i \in 1..Len(entries) :
                        /\ entries[i].date = dir[stem].date
                        /\ entries[i].url = UrlAt(dir[stem].mtime, dir[stem], stem)
                        /\ entries[i].dateValue = dir[stem].mtime
                        /\ \A j \in 1..Len(entries) :
                              /\ j < i => entries[j].dateValue >= dir[stem].mtime
                              /\ j > i => entries[j].dateValue <= dir[stem].mtime
                        /\ IndexHrefs(fs[IndexPath])[i] = entries[i].url

C12_Witness ==
    /\ pc = "done"
    /\ Len(entries) = 3
    /\ entries[2].date = "not a date"
    /\ entries[2].dateValue = MTimeMarch2025
    /\ entries[1].dateValue > MTimeMarch2025
    /\ entries[3].dateValue < MTimeMarch2025
    /\ IndexHrefs(fs[IndexPath])[2] = "./posts/2025/03/test.html"
    /\ <<OUT_DIR, "posts", "2025", "03", "test.html">> \in DOMAIN fs

\* the date field the stated precedence chooses: date, else date created,
\* else date modified
ChosenDate(data) ==
    IF data.date # "" THEN data.date
    ELSE IF data.created # "" THEN data.created
    ELSE data.modified

\* the instant of a date string when it is present and parses, else mtime
InstantOr(d, mtime) == IF d # "" /\ ParseDate(d).valid THEN ParseDate(d).t ELSE mtime

\* C13: sort key and year/month directory of a document are those of the
\* field chosen by the precedence date, date created, date modified, and
\* those of the modification time only when no field is present or the
\* chosen one does not parse.
C13_DatePrecedence ==
    \A k \in 1..Len(writes) :
        LET data == DataOf(writes[k])
            t == InstantOr(ChosenDate(data), data.mtime)
        IN  /\ writes[k].path[3] = ToString(CivilFromDays(t)[1])
            /\ writes[k].path[4] = PadStart2(CivilFromDays(t)[2])
            /\ pc = "loop" => entries[k].dateValue = t

\* C14: for a document with both date and date created, sort key and
\* year/month directory are those of date; the post page shows date created
\* as creation date, date when date created is absent; it shows date modified
\* as modification date and no modification date when that field is absent.
C14_DualDatePrecedence ==
    \A k \in 1..Len(writes) :
        LET data == DataOf(writes[k])
            page == fs[writes[k].path]
            t == InstantOr(data.date, data.mtime)
        IN  /\ (data.date # "" /\ data.created # "") =>
                  /\ writes[k].path[3] = ToString(CivilFromDays(t)[1])
                  /\ writes[k].path[4] = PadStart2(CivilFromDays(t)[2])
                  /\ pc = "loop" => entries[k].dateValue = t
            /\ LastWriteTo(k) =>
                  /\ data.created # "" =>
                        Contains(page, <<"<time created>", FormatDate(data.created), "</time>">>)
                  /\ (data.created = "" /\ data.date # "") =>
                        Contains(page, <<"<time created>", FormatDate(data.date), "</time>">>)
                  /\ data.modified # "" =>
                        Contains(page, <<"<time modified>", FormatDate(data.modified), "</time>">>)
                  /\ data.modified = "" => ~Contains(page, <<"<time modified>">>)

\* C16: when reading or parsing a document fails the build exits with status
\* 1 and takes no further step; the documents before the failing one are the
\* only ones with an entry or a post file, and nothing else has been written:
\* no file for the failing document, no index, no archive.
C16_ReadFailureAborts ==
    pc = "failed" =>
        /\ exitCode = 1
        /\ ~ENABLED NextUnreadable
        /\ next <= Len(readMdFiles(dir))
        /\ Len(entries) = next - 1
        /\ Len(writes) = next - 1
        /\ \A k \in 1..Len(writes) : writes[k].file = readMdFiles(dir)[k]
        /\ DOMAIN fs = {writes[k].path : k \in 1..Len(writes)}

C16_Witness ==
    /\ pc = "failed"
    /\ exitCode = 1
    /\ Len(readMdFiles(dir)) = 3
    /\ next = 2
    /\ writes = <<[file |-> "a", path |-> PostOf("a", dir["a"]).outFile]>>
    /\ DOMAIN fs = {PostOf("a", dir["a"]).outFile}

\* the maximal runs of characters of s outside D, in order
MaximalRuns(s, D) ==
    LET idx == SelectSeq([i \in 1..Len(s) |-> i],
                         LAMBDA i : s[i] \notin D /\ (i = 1 \/ s[i - 1] \in D))
        end(i) == CHOOSE j \in i..Len(s) :
                      /\ \A m \in i..j : s[m] \notin D
                      /\ j = Len(s) \/ s[j + 1] \in D
    IN  [k \in 1..Len(idx) |-> SubSeq(s, idx[k], end(idx[k]))]

\* C15: normalizeMeta raises no error whatever the shape of tags, returns a
\* list unchanged, splits a string into its maximal runs of characters other
\* than commas and whitespace, in order, and returns the empty list when
\* tags is missing.
C15_TagsAlwaysList ==
    metaPc = "ret" =>
        /\ metaOut # Thrown
        /\ metaIn.tags.t = "array" => metaOut.tags = metaIn.tags.v
        /\ metaIn.tags.t = "string" =>
               metaOut.tags = MaximalRuns(metaIn.tags.v, Whitespace \cup {","})
        /\ metaIn.tags.t = "undefined" => metaOut.tags = <<>>

\* the minification of a file fails: it cannot be read, or every minifier
\* the batch tries on it throws
MinifyFails(pass, file) ==
    \/ ~file.readable
    \/ pass = "css" /\ ~BundleAsync(file.content).ok /\ ~Transform(file.content).ok
    \/ pass = "js" /\ ~TerserMinify(file.content).ok
    \/ pass = "html" /\ ~HtmlMinify(file.content).ok

Handled(pass, path) == \E k \in 1..Len(optLog) : optLog[k] = [pass |-> pass, path |-> path]

\* C17: a file whose minification failed is as it was before the
\* optimization, a file whose minification succeeded holds the minified text
\* (terser's empty output leaves a JS file as it was), files no batch handled
\* are untouched, and when the batches are done each has handled every file
\* it collects, those behind a failing file included.
C17_FailedFileKeptBatchContinues ==
    /\ \A k \in 1..Len(optLog) :
          LET path == optLog[k].path
              before == optFs0[path]
          IN  IF MinifyFails(optLog[k].pass, before) THEN optFs[path] = before
              ELSE IF optLog[k].pass = "js" /\ Squeeze(before.content) = <<>>
                   THEN optFs[path] = before
                   ELSE optFs[path] = [before EXCEPT !.content = Squeeze(before.content)]
    /\ \A path \in DOMAIN optFs0 :
          (\A k \in 1..Len(optLog) : optLog[k].path # path) => optFs[path] = optFs0[path]
    /\ DOMAIN optFs = DOMAIN optFs0
    /\ optPc = "done" =>
          \A path \in DOMAIN optFs0 :
              \A i \in 1..Len(Passes) : InPass(Passes[i], path) => Handled(Passes[i], path)

C17_Witness ==
    /\ optPc = "done"
    /\ \E j, k \in 1..Len(optLog) :
          /\ j < k
          /\ optLog[j].pass = optLog[k].pass
          /\ optFs0[optLog[j].path] = [content |-> <<"a", " ", "{">>, readable |-> TRUE]
          /\ optFs[optLog[j].path].content = <<"a", " ", "{">>
          /\ optFs0[optLog[k].path].content = <<"a", " ", "b">>
          /\ optFs[optLog[k].path].content = <<"a", "b">>

\* C18 as stated: once the ids are assigned every heading has an id and the
\* ids of the headings are pairwise distinct.
C18_AsStated ==
    tocPc = "done" =>
        /\ \A i \in 1..Len(tocDom) : tocDom[i].id # <<>>
        /\ \A i, j \in 1..Len(tocDom) : i # j => tocDom[i].id # tocDom[j].id

\* heading i had no id when the page was loaded and has been given one
GivenId(i) == tocDom0[i].id = <<>> /\ tocDom[i].id # <<>>

\* the n-th id generateHeadingId tries for heading i: the base id of its
\* text, heading-<index> when that is empty, then the base id with counter n
CandidateId(i, n) ==
    LET base == TocBaseId(tocDom0[i].text)
        index == Cardinality({j \in 1..(i - 1) : tocDom0[j].level <= 5})
    IN  IF n > 0 THEN Suffixed(base, n)
        ELSE IF base # <<>> THEN base ELSE HeadingIndexId(index)

\* the ids in the page when heading i was visited: those the page was loaded
\* with and those given to the headings before i
PresentFor(i) ==
    {tocDom[j].id : j \in {k \in 1..Len(tocDom) : k # i /\ (tocDom0[k].id # <<>> \/ k < i)}}
        \ {<<>>}

\* C18: a heading with an id keeps it and an h6 heading is not visited; an
\* h1 to h5 heading without id gets the first of base id, base id with
\* counter 1, 2, ... that no element has, which differs from every other id
\* of the page; the probing loop ends, having failed at most once per id of
\* the page; afterwards every h1 to h5 heading has an id, and the ids of the
\* headings are pairwise distinct if those the page was loaded with were.
C18_AssignedIdsAreFresh ==
    /\ Len(tocDom) = Len(tocDom0)
    /\ \A i \in 1..Len(tocDom) :
          /\ tocDom[i].level = tocDom0[i].level /\ tocDom[i].text = tocDom0[i].text
          /\ (tocDom0[i].id # <<>> \/ tocDom0[i].level > 5) => tocDom[i].id = tocDom0[i].id
          /\ GivenId(i) =>
                /\ \E n \in 0..Len(tocDom) :
                      /\ tocDom[i].id = CandidateId(i, n)
                      /\ \A m \in 0..(n - 1) : CandidateId(i, m) \in PresentFor(i)
                /\ \A j \in 1..Len(tocDom) : j # i => tocDom[j].id # tocDom[i].id
    /\ tocPc = "probe" =>
          tocCounter - 1 <= Cardinality({tocDom[i].id : i \in 1..Len(tocDom)} \ {<<>>})
    /\ tocPc = "done" =>
          /\ \A i \in 1..Len(tocDom) : tocDom[i].level <= 5 => tocDom[i].id # <<>>
          /\ (\A i, j \in 1..Len(tocDom) :
                  (i # j /\ tocDom0[i].id # <<>>) => tocDom0[i].id # tocDom0[j].id)
              => \A i, j \in 1..Len(tocDom) :
                    (i # j /\ tocDom[i].id # <<>>) => tocDom[i].id # tocDom[j].id

ApiDesignId == <<"a", "p", "i", Hyphen, "U+8BBE", "U+8BA1">>

C18_Witness ==
    /\ tocPc = "done"
    /\ Len(tocDom) = 3
    /\ \A i \in 1..2 : tocDom0[i] = [level |-> 2, text |-> ApiDesign, id |-> <<>>]
    /\ tocDom[1].id = ApiDesignId
    /\ tocDom0[3].id = Suffixed(ApiDesignId, 1)
    /\ tocDom[2].id = Suffixed(ApiDesignId, 2)
    /\ tocCounter = 3

\* C19: every summary generateSummary returns, and so every summary written
\* to a front matter, is non-empty and at most maxLength characters long.
C19_SummaryWithinMaxLength ==
    /\ \A k \in 1..Len(sumLog) :
          sumLog[k].summary # Thrown
              => Len(sumLog[k].summary.v) \in 1..sumMaxLength
    /\ \A f \in 1..Len(sumFs) :
          sumFs[f] # sumFs0[f] => Len(sumFs[f].summary) \in 1..sumMaxLength

\* C20: with the key set and OPENAI_API_BASE not set a request the API
\* answers with a text yields a summary, made by the OpenAI client; with the
\* key missing every attempt fails.
C20_ApiBaseOptional ==
    /\ (sumPc # "idle" /\ Truthy(sumEnv.apiKey) /\ sumEnv.apiBase = Undefined) =>
          \A k \in 1..Len(sumLog) :
              (sumLog[k].reply # Thrown /\ Trim(sumLog[k].reply.v) # <<>>)
                  => /\ sumLog[k].summary # Thrown
                     /\ getClient(getAIConfig(sumEnv)).provider = "openai"
    /\ (sumPc # "idle" /\ ~Truthy(sumEnv.apiKey)) =>
          \A k \in 1..Len(sumLog) : sumLog[k].summary = Thrown

\* how often x occurs in seq
CountOf(seq, x) == Cardinality({i \in 1..Len(seq) : seq[i] = x})

\* C21: observers are called exactly on a change of isOpen: after an
\* operation that changed it every observer registered before was called
\* once, with ("open", true) or ("close", false), and nobody else was called;
\* after an operation that left it unchanged nobody was called. A throwing
\* observer is one of the callbacks.
C21_NotifyOnTransitions ==
    LET now == mobileMenu.isOpen
        note(c) == [observer |-> c, action |-> IF now THEN "open" ELSE "close",
                    isOpen |-> now]
    IN  IF menuCall.wasOpen = now
        THEN mobileMenu.notes = <<>>
        ELSE /\ Len(mobileMenu.notes) = Len(menuCall.observers)
             /\ \A c \in Callbacks :
                   CountOf(mobileMenu.notes, note(c)) = CountOf(menuCall.observers, c)

\* C25: on a page that has the button and the menu, isOpen, the open class
\* of the menu and the open class of body agree, aria-expanded is isOpen and
\* aria-hidden its negation, whatever calls and events came before; and
\* after a resize handled at a width above 1024 the menu is closed.
C25_MenuStateConsistent ==
    MenuBound =>
        /\ mobileMenu.menuOpenClass = mobileMenu.isOpen
        /\ mobileMenu.bodyOpenClass = mobileMenu.isOpen
        /\ mobileMenu.ariaExpanded = BoolText(mobileMenu.isOpen)
        /\ mobileMenu.ariaHidden = BoolText(~mobileMenu.isOpen)
        /\ (menuCall.op = "resize" /\ innerWidth > LgBreakpoint) => ~mobileMenu.isOpen

C25_Witness ==
    /\ MenuBound
    /\ menuCall.op = "resize"
    /\ innerWidth > LgBreakpoint
    /\ menuCall.wasOpen
    /\ ~mobileMenu.isOpen
    /\ ~mobileMenu.bodyOpenClass
    /\ mobileMenu.ariaHidden = "true"

\* the theme shown is the system theme
ShowsSystemTheme ==
    currentTheme = getSystemTheme(systemDark) /\ dataTheme = getSystemTheme(systemDark)

\* C22: a system colour-scheme change is applied when nothing was stored as
\* the page loaded and neither toggleTheme nor setTheme has set a theme
\* since; it changes nothing once the user has set a theme.
C22_FollowsSystemUntilManual ==
    themeCall.op = "systemChange" =>
        /\ themeCall.mode = "system" => ShowsSystemTheme
        /\ themeCall.mode = "manual" =>
              /\ currentTheme = themeCall.before.currentTheme
              /\ dataTheme = themeCall.before.dataTheme

\* C23: after resetTheme the system theme is shown and nothing is stored, and
\* a system colour-scheme change that comes before the user sets a theme
\* again is applied.
C23_ResetFollowsSystem ==
    /\ themeCall.op = "resetTheme" => ShowsSystemTheme /\ themeStorage = Null
    /\ (themeCall.op = "systemChange" /\ themeCall.mode = "reset") => ShowsSystemTheme

\* C30: currentTheme is dark or light and is both the data-theme attribute
\* and the stored value; setTheme with another value returns false and
\* changes none of the three; a toggleTheme after a toggleTheme brings the
\* theme back.
C30_ThemeConsistent ==
    /\ currentTheme \in {Dark, Light}
    /\ dataTheme = currentTheme
    /\ themeStorage = currentTheme
    /\ (themeCall.op = "setTheme" /\ themeCall.arg \notin {Dark, Light}) =>
          themeCall.ret = Bool(FALSE) /\ ThemeNow = themeCall.before
    /\ (themeCall.op = "toggleTheme" /\ themeCall.earlier = "toggleTheme") =>
          currentTheme = themeCall.earlierTheme

\* the URL the index and the archive give the post written to path
UrlOfPath(path) ==
    "./" \o path[2] \o "/" \o path[3] \o "/" \o path[4] \o "/"
    \o path[5]

\* C24: a document whose chosen date parses, the instant 0 and instants
\* before 1970 included, has that instant as sort key and its calendar year
\* and month as directory, never those of the modification time; so the
\* archive lists it in the year group named like the year of its path.
C24_ParsedDateIsUsed ==
    /\ \A k \in 1..Len(writes) :
          LET w == writes[k]
              p == ParseDate(MetaOf(w).date)
          IN  (MetaOf(w).date # "" /\ p.valid) =>
                  /\ w.path[3] = ToString(getFullYear(p.t))
                  /\ w.path[4] = PadStart2(getMonth(p.t) + 1)
                  /\ pc = "loop" => entries[k].dateValue = p.t
    /\ \A g \in 1..Len(archive) : \A i \in 1..Len(archive[g].posts) :
          \A k \in 1..Len(writes) :
              (/\ UrlOfPath(writes[k].path) = archive[g].posts[i].url
               /\ MetaOf(writes[k]).date = archive[g].posts[i].date)
                  => writes[k].path[3] = ToString(archive[g].year)

\* cmd has been executed in this run
DidRun(cmd) == \E i \in 1..Len(deployLog) : deployLog[i].cmd = cmd

\* the pushes of this run: positions in the log
Pushes == {i \in 1..Len(deployLog) : deployLog[i].cmd \in {"git push", "git push -f"}}

\* C26: git commit is executed iff git status printed changes; without
\* changes deploy returns without a push iff git log printed nothing, and
\* goes on to the push when git log printed commits or failed; a run pushes
\* at most once, with -f iff forcesPush is set.
C26_CommitAndPushDecisions ==
    /\ DidRun("git commit") => statusOut = "changes"
    /\ (statusOut = "changes" /\ deployPc # "commit") => DidRun("git commit")
    /\ (statusOut = "" /\ unpushedOut = "") =>
          deployPc = "done" /\ deployExit = 0 /\ Pushes = {}
    /\ (statusOut = "" /\ unpushedOut \in {"commits", "fails"}) =>
          deployPc = "push" \/ Pushes # {}
    /\ (deployPc = "done" /\ Pushes = {}) => statusOut = "" /\ unpushedOut = ""
    /\ Cardinality(Pushes) <= 1
    /\ \A i \in Pushes : (deployLog[i].cmd = "git push -f") <=> forcesPush

C26_Witness ==
    /\ deployPc = "done"
    /\ statusOut = ""
    /\ unpushedOut = "fails"
    /\ ~DidRun("git commit")
    /\ ~forcesPush
    /\ deployLog[Len(deployLog)] = Ran("git push", TRUE)

\* the step of a deploy run a command belongs to
StepOf(cmd) ==
    CASE cmd = "git --version" -> 1
      [] cmd = "clear" -> 2
      [] cmd \in {"git init", "git remote add", "git remote get-url", "git remote set-url"} -> 3
      [] cmd \in {"git checkout -B", "git checkout -b"} -> 4
      [] cmd = "pnpm build" -> 5
      [] cmd = "git add -A" -> 6
      [] cmd \in {"git status", "git log"} -> 7
      [] cmd = "git commit" -> 8
      [] OTHER -> 9

\* the commands of step s that decide it: git log only informs the push
StepRuns(s) ==
    {i \in 1..Len(deployLog) : StepOf(deployLog[i].cmd) = s /\ deployLog[i].cmd # "git log"}

\* step s was tried and its last command failed
StepFailed(s) ==
    StepRuns(s) # {} /\ \E i \in StepRuns(s) : (\A j \in StepRuns(s) : j <= i) /\ ~deployLog[i].ok

\* C27: the commands of a run come in the order of the steps check git,
\* clear, repository and remote, checkout, build, stage, status, commit,
\* push, no step but the commit left out; a push is reached with no failed
\* step before it; a failed step ends the run with exit status 1 and, when
\* it is not the push itself, without a push; .git is never removed.
C27_StepsInOrderFailureStops ==
    /\ \A i, j \in 1..Len(deployLog) :
          i < j => StepOf(deployLog[i].cmd) <= StepOf(deployLog[j].cmd)
    /\ \A i \in 1..Len(deployLog) : \A s \in 1..(StepOf(deployLog[i].cmd) - 1) :
          s # 8 => \E j \in 1..(i - 1) : StepOf(deployLog[j].cmd) = s
    /\ \A i \in Pushes : \A s \in 1..8 : ~StepFailed(s)
    /\ \A s \in 1..9 :
          StepFailed(s) =>
              /\ deployPc = "failed"
              /\ deployExit = 1
              /\ s < 9 => Pushes = {}
    /\ deployPc = "failed" => deployExit = 1 /\ \E s \in 1..9 : StepFailed(s)
    /\ (outDir0.exists /\ ".git" \in outDir0.entries) => ".git" \in outDir.entries

C27_Witness ==
    /\ deployPc = "failed"
    /\ deployExit = 1
    /\ deployLog[Len(deployLog)] = Ran("git commit", FALSE)
    /\ DidRun("git checkout -b")
    /\ outDir0 = Dir({".git", "posts"})
    /\ outDir = Dir({".git", "index.html", "posts"})


\* the readable ones among the selected files
ReadableFiles == {f \in 1..Len(sumFs0) : sumFs0[f].readable}

\* the iterations of the loop that wrote the file
WrittenAttempts == {k \in 1..Len(sumLog) : sumLog[k].written}

EnabledPasses == SelectSeq(Passes, LAMBDA p : optimizeConfig[p])

\* the result entries of a pass
ResultsOf(p) == {e \in report.results : e.pass = p}

\* C29: the enabled passes are entered in the order CSS, JS, HTML, whether
\* or not an earlier one threw; the report that is returned has one result
\* for each enabled pass and none for another, optimized exactly when the
\* pass did not throw; successCount + errorCount is the number of enabled
\* passes; and the call returns.
C29_EveryEnabledPassReported ==
    /\ runPc \in {"css", "js", "html", "report", "return", "returned", "idle"}
    /\ \A k \in 1..Len(passCalls) :
          /\ k <= Len(EnabledPasses)
          /\ passCalls[k].pass = EnabledPasses[k]
          /\ \E e \in report.results :
                /\ ResultsOf(passCalls[k].pass) = {e}
                /\ e.optimized <=> ~passCalls[k].threw
                /\ e.errors = <<>> <=> e.optimized
    /\ runPc \in {"report", "return", "returned"} =>
          /\ Len(passCalls) = Len(EnabledPasses)
          /\ {e.pass : e \in report.results}
                = {EnabledPasses[k] : k \in 1..Len(EnabledPasses)}
          /\ report.summary.successCount
                = Cardinality({e \in report.results : e.optimized})
          /\ report.summary.errorCount
                = Cardinality({e \in report.results : ~e.optimized})
          /\ report.summary.successCount + report.summary.errorCount
                = Len(EnabledPasses)

\* CSS threw, JS is disabled, HTML ran after that and the report came back
C29_Witness ==
    /\ runPc = "returned"
    /\ optimizeConfig.css /\ ~optimizeConfig.js /\ optimizeConfig.html
    /\ passCalls = <<[pass |-> "css", threw |-> TRUE],
                     [pass |-> "html", threw |-> FALSE]>>
    /\ report.summary.successCount = 1
    /\ report.summary.errorCount = 1
    /\ Cardinality(report.results) = 2

====
